---------------------------- MODULE Spec2Model ----------------------------
(***************************************************************************)
(* A model of react-native-datalift: the OCR-text normaliser, the          *)
(* rule-based parser (segmentation, line items, transaction numbers,        *)
(* totals), the AI providers' merge, and the SDK's extract() pipeline with  *)
(* its OCR and AI engines.                                                  *)
(*                                                                         *)
(* Text is a sequence of one-character strings.  Characters outside ASCII   *)
(* are written as atoms: "<en>" (U+2013), "<em>" (U+2014), "<zw>" (U+200B), *)
(* "<eur>" (U+20AC).  Amounts are integers in units of 1/10000 (E4), the    *)
(* precision the code rounds to with toFixed(4).                            *)
(***************************************************************************)
EXTENDS Integers, Sequences, FiniteSets, TLC

VARIABLES
  rawText,    \* the text handed to normaliseOCRText / parse
  pc,         \* where the call under check stands
  normText,   \* normaliseOCRText(rawText)
  response,   \* the record parse() returns (the fields the claims read)
  sdk         \* the SDK's process-wide state and the extract() call in flight

vars == <<rawText, pc, normText, response, sdk>>

(***************************************************************************)
(* Characters                                                              *)
(***************************************************************************)
NL == "\n"
TAB == "\t"
Digit == {"0", "1", "2", "3", "4", "5", "6", "7", "8", "9"}
LowerSeq == <<"a", "b", "c", "d", "e", "f", "g", "h", "i", "j", "k", "l", "m",
              "n", "o", "p", "q", "r", "s", "t", "u", "v", "w", "x", "y", "z">>
UpperSeq == <<"A", "B", "C", "D", "E", "F", "G", "H", "I", "J", "K", "L", "M",
              "N", "O", "P", "Q", "R", "S", "T", "U", "V", "W", "X", "Y", "Z">>
LowerCh == {LowerSeq[i] : i \in 1..26}
UpperCh == {UpperSeq[i] : i \in 1..26}
Letter == LowerCh \cup UpperCh
WordCh == Letter \cup Digit \cup {"_"}
\* JavaScript's \s, as far as the modelled alphabet goes
Space == {" ", TAB, NL}
\* [^\S\n]
SpaceNoNL == {" ", TAB}
CurrencySym == {"$", "<eur>", "<gbp>", "<inr>", "<yen>"}

ToLower(c) ==
  IF c \in UpperCh THEN LowerSeq[CHOOSE i \in 1..26 : UpperSeq[i] = c] ELSE c

LowerText(s) == [i \in 1..Len(s) |-> ToLower(s[i])]

(***************************************************************************)
(* Regular expressions, matched the way a backtracking engine matches them *)
(* (leftmost, alternatives in order, greedy repetition).  A pattern with   *)
(* the i flag is written in lower case and run on LowerText of the subject; *)
(* captures are positions, so the captured text is cut from the original.  *)
(***************************************************************************)
Ch(S) == [t |-> "ch", s |-> S]
NCh(S) == [t |-> "nch", s |-> S]
Cat(rs) == [t |-> "cat", rs |-> rs]
Alt(rs) == [t |-> "alt", rs |-> rs]
Rep(r, lo, hi) == [t |-> "rep", r |-> r, lo |-> lo, hi |-> hi]
Grp(n, r) == [t |-> "grp", n |-> n, r |-> r]
LookA(r) == [t |-> "la", r |-> r]
NLookA(r) == [t |-> "nla", r |-> r]
LookB(S) == [t |-> "lb", s |-> S]
Bol == [t |-> "bol"]
Eol == [t |-> "eol"]
BolM == [t |-> "bolm"]
EolM == [t |-> "eolm"]
WB == [t |-> "wb"]

\* an upper bound standing for the unbounded quantifiers * and +
Unbounded == 99
Star(r) == Rep(r, 0, Unbounded)
Plus(r) == Rep(r, 1, Unbounded)
Opt(r) == Rep(r, 0, 1)
Lit(cs) == Cat([i \in 1..Len(cs) |-> Ch({cs[i]})])

NoCaps == [n \in 1..3 |-> <<0, 0>>]

IsWordAt(s, i) == i >= 1 /\ i <= Len(s) /\ s[i] \in WordCh

RECURSIVE M(_, _, _, _)
RECURSIVE Bind(_, _, _)

\* the ways r matches s from position i, best first: <<[p: next position, c: captures]>>
M(r, s, i, c) ==
  LET here == <<[p |-> i, c |-> c]>> IN
  CASE r.t = "ch" -> IF i <= Len(s) /\ s[i] \in r.s
                     THEN <<[p |-> i + 1, c |-> c]>> ELSE <<>>
    [] r.t = "nch" -> IF i <= Len(s) /\ s[i] \notin r.s
                      THEN <<[p |-> i + 1, c |-> c]>> ELSE <<>>
    [] r.t = "cat" -> IF Len(r.rs) = 0 THEN here
                      ELSE IF Len(r.rs) = 1 THEN M(r.rs[1], s, i, c)
                      ELSE Bind(M(r.rs[1], s, i, c), Cat(Tail(r.rs)), s)
    [] r.t = "alt" -> IF Len(r.rs) = 0 THEN <<>>
                      ELSE M(r.rs[1], s, i, c) \o M(Alt(Tail(r.rs)), s, i, c)
    [] r.t = "rep" ->
         LET one == IF r.hi = 0 THEN <<>> ELSE M(r.r, s, i, c)
             prog == SelectSeq(one, LAMBDA m : m.p > i)
             more == Bind(prog, Rep(r.r, IF r.lo > 0 THEN r.lo - 1 ELSE 0, r.hi - 1), s)
         IN more \o (IF r.lo = 0 THEN here ELSE <<>>)
    [] r.t = "grp" ->
         LET ms == M(r.r, s, i, c)
         IN [k \in 1..Len(ms) |->
               [p |-> ms[k].p, c |-> [ms[k].c EXCEPT ![r.n] = <<i, ms[k].p>>]]]
    [] r.t = "la" -> IF Len(M(r.r, s, i, c)) > 0 THEN here ELSE <<>>
    [] r.t = "nla" -> IF Len(M(r.r, s, i, c)) = 0 THEN here ELSE <<>>
    [] r.t = "lb" -> IF i > 1 /\ s[i - 1] \in r.s THEN here ELSE <<>>
    [] r.t = "bol" -> IF i = 1 THEN here ELSE <<>>
    [] r.t = "eol" -> IF i = Len(s) + 1 THEN here ELSE <<>>
    [] r.t = "bolm" -> IF i = 1 \/ s[i - 1] = NL THEN here ELSE <<>>
    [] r.t = "eolm" -> IF i = Len(s) + 1 \/ s[i] = NL THEN here ELSE <<>>
    [] r.t = "wb" -> IF IsWordAt(s, i - 1) # IsWordAt(s, i) THEN here ELSE <<>>

Bind(ms, r, s) ==
  IF Len(ms) = 0 THEN <<>>
  ELSE M(r, s, ms[1].p, ms[1].c) \o Bind(Tail(ms), r, s)

NoMatch == [ok |-> FALSE, st |-> 0, en |-> 0, c |-> NoCaps]

RECURSIVE SearchFrom(_, _, _)
\* String.prototype.match without the g flag / RegExp.exec: the leftmost match
SearchFrom(r, s, i) ==
  IF i > Len(s) + 1 THEN NoMatch
  ELSE LET ms == M(r, s, i, NoCaps)
       IN IF Len(ms) > 0
          THEN [ok |-> TRUE, st |-> i, en |-> ms[1].p, c |-> ms[1].c]
          ELSE SearchFrom(r, s, i + 1)

Search(r, s) == SearchFrom(r, s, 1)
Test(r, s) == Search(r, s).ok
\* the text of capture group n of match m, cut from s; <<>> when the group did not take part
Cap(m, s, n) == IF m.c[n][1] = 0 THEN <<>> ELSE SubSeq(s, m.c[n][1], m.c[n][2] - 1)
HasCap(m, n) == m.ok /\ m.c[n][1] # 0

RECURSIVE Expand(_, _, _)
GroupRef == <<"$1", "$2", "$3">>
\* a replacement string: tmpl is a sequence of characters and group references "$n"
Expand(tmpl, s, caps) ==
  IF Len(tmpl) = 0 THEN <<>>
  ELSE (IF \E n \in 1..3 : GroupRef[n] = tmpl[1]
        THEN LET n == CHOOSE n \in 1..3 : GroupRef[n] = tmpl[1]
             IN IF caps[n][1] = 0 THEN <<>> ELSE SubSeq(s, caps[n][1], caps[n][2] - 1)
        ELSE <<tmpl[1]>>) \o Expand(Tail(tmpl), s, caps)

RECURSIVE ReplaceFrom(_, _, _, _)
\* String.prototype.replace with a g-flag pattern: non-overlapping matches,
\* left to right, each found in the original text
ReplaceFrom(r, s, i, tmpl) ==
  IF i > Len(s) THEN <<>>
  ELSE LET ms == M(r, s, i, NoCaps)
       IN IF Len(ms) > 0 /\ ms[1].p > i
          THEN Expand(tmpl, s, ms[1].c) \o ReplaceFrom(r, s, ms[1].p, tmpl)
          ELSE <<s[i]>> \o ReplaceFrom(r, s, i + 1, tmpl)

ReplaceAll(r, s, tmpl) == ReplaceFrom(r, s, 1, tmpl)

(***************************************************************************)
(* Text helpers                                                            *)
(***************************************************************************)
\* a string literal as text
Str(w) == [i \in 1..Len(w) |-> SubSeq(w, i, i)]
L(w) == Lit(Str(w))
S0 == Star(Ch(Space))
S1 == Plus(Ch(Space))

RECURSIVE Concat(_)
Concat(ss) == IF Len(ss) = 0 THEN <<>> ELSE ss[1] \o Concat(Tail(ss))

RECURSIVE Join(_, _)
\* Array.prototype.join
Join(ss, sep) ==
  IF Len(ss) = 0 THEN <<>>
  ELSE IF Len(ss) = 1 THEN ss[1]
  ELSE ss[1] \o sep \o Join(Tail(ss), sep)

RECURSIVE SplitNL(_)
\* String.prototype.split("\n")
SplitNL(s) ==
  IF \A i \in 1..Len(s) : s[i] # NL THEN <<s>>
  ELSE LET k == CHOOSE i \in 1..Len(s) : s[i] = NL /\ \A j \in 1..(i - 1) : s[j] # NL
       IN <<SubSeq(s, 1, k - 1)>> \o SplitNL(SubSeq(s, k + 1, Len(s)))

RECURSIVE SplitRx(_, _)
\* String.prototype.split(regex) for a pattern that matches no empty string
SplitRx(r, s) ==
  LET m == Search(r, s)
  IN IF ~m.ok THEN <<s>>
     ELSE <<SubSeq(s, 1, m.st - 1)>> \o SplitRx(r, SubSeq(s, m.en, Len(s)))

RECURSIVE TrimLeft(_)
TrimLeft(s) == IF Len(s) > 0 /\ s[1] \in Space THEN TrimLeft(Tail(s)) ELSE s
RECURSIVE TrimRight(_)
TrimRight(s) ==
  IF Len(s) > 0 /\ s[Len(s)] \in Space THEN TrimRight(SubSeq(s, 1, Len(s) - 1)) ELSE s
\* String.prototype.trim
Trim(s) == TrimRight(TrimLeft(s))

\* String.prototype.includes
Includes(s, w) == \E i \in 1..(Len(s) - Len(w) + 1) : SubSeq(s, i, i + Len(w) - 1) = w

\* String.prototype.replace with a pattern without the g flag: the first match only
ReplaceFirst(r, s, tmpl) ==
  LET m == Search(r, s)
  IN IF ~m.ok THEN s
     ELSE SubSeq(s, 1, m.st - 1) \o Expand(tmpl, s, m.c) \o SubSeq(s, m.en, Len(s))

RECURSIVE MatchAllFrom(_, _, _)
\* the successive matches of a g-flag pattern's exec loop
MatchAllFrom(r, s, i) ==
  LET m == SearchFrom(r, s, i)
  IN IF ~m.ok THEN <<>>
     ELSE <<m>> \o MatchAllFrom(r, s, IF m.en = m.st THEN m.en + 1 ELSE m.en)

\* .split("\n").map(l => l.trim()).filter(Boolean)
TrimmedLines(text) ==
  LET ls == SplitNL(text)
  IN SelectSeq([i \in 1..Len(ls) |-> Trim(ls[i])], LAMBDA l : Len(l) > 0)

\* Array.prototype.slice(from, to) with 0-based bounds
Slice(ss, from, to) == SubSeq(ss, from + 1, to)

Min(a, b) == IF a < b THEN a ELSE b
Max(a, b) == IF a > b THEN a ELSE b
Abs(a) == IF a < 0 THEN 0 - a ELSE a

(***************************************************************************)
(* Numbers.  An amount is an integer count of 1/10000; None stands for      *)
(* undefined and NaN for parseFloat's NaN.                                 *)
(***************************************************************************)
E4 == 10000
None == -1
NaN == -2

DigitSeq == <<"0", "1", "2", "3", "4", "5", "6", "7", "8", "9">>
DigitVal(c) == (CHOOSE i \in 1..10 : DigitSeq[i] = c) - 1

RECURSIVE DigitsVal(_)
DigitsVal(ds) ==
  IF Len(ds) = 0 THEN 0 ELSE DigitsVal(SubSeq(ds, 1, Len(ds) - 1)) * 10 + DigitVal(ds[Len(ds)])

RECURSIVE DigitPrefix(_)
DigitPrefix(s) ==
  IF Len(s) > 0 /\ s[1] \in Digit THEN <<s[1]>> \o DigitPrefix(Tail(s)) ELSE <<>>

\* parseFloat of a text of digits and dots (signs and exponents do not occur in
\* what the parser hands it); digits past the fourth decimal are dropped
ParseFloat(s) ==
  LET ip == DigitPrefix(s)
      rest == SubSeq(s, Len(ip) + 1, Len(s))
      fp == IF Len(rest) > 0 /\ rest[1] = "." THEN DigitPrefix(Tail(rest)) ELSE <<>>
      f4 == SubSeq(fp \o <<"0", "0", "0", "0">>, 1, 4)
  IN IF Len(ip) = 0 /\ Len(fp) = 0 THEN NaN
     ELSE DigitsVal(ip) * E4 + DigitsVal(f4)

\* s.replace(/,/g, "")
StripCommas(s) == SelectSeq(s, LAMBDA ch : ch # ",")
\* s.replace(/[^0-9.]/g, "")
KeepDigitsDots(s) == SelectSeq(s, LAMBDA ch : ch \in Digit \cup {"."})

IsInteger(n) == n % E4 = 0

\* the largest amount the model's arithmetic carries
Huge == 2000000000
\* x * y, capped at Huge
Times(x, y) == IF x > 0 /\ y > Huge \div x THEN Huge ELSE x * y

\* a * b; exact when one factor is a whole number or both have at most two
\* decimals, and capped at Huge (200000.0000)
MulE4(a, b) ==
  IF a % E4 = 0 THEN Times(a \div E4, b)
  ELSE IF b % E4 = 0 THEN Times(a, b \div E4)
  ELSE Times(a \div 100, b \div 100)

\* parseFloat((a / b).toFixed(4)); exact when b has at most two decimals
DivE4(a, b) ==
  LET d == b \div 100
  IN Times(100, a \div d) + (200 * (a % d) + d) \div (2 * d)

\* parseFloat((base * pct / 100).toFixed(4)), pct a percentage with at most two decimals
PctOf(base, pct) ==
  LET c == pct \div 100
  IN Times(base \div E4, c) + ((base % E4) * c + 5000) \div E4

(***************************************************************************)
(* RuleBasedParser.segmentDocument.  Line indices are 0-based as in the     *)
(* source; line i of the code is lines[i + 1] here.  Patterns with the i    *)
(* flag are written in lower case and run on the lower-cased subject.      *)
(***************************************************************************)
OptDot == Opt(Ch({"."}))
NoOrHash == Alt(<<L("no"), L("#")>>)

bodyStartKeywords ==
  Cat(<<Bol,
        Alt(<<L("description"), L("item"), L("qty"), L("quantity"),
              Cat(<<L("part"), S0, NoOrHash>>), L("sku"),
              Cat(<<L("unit"), S0, L("price")>>), L("amount"), L("total"),
              Cat(<<L("bill"), S0, L("to")>>), Cat(<<L("ship"), S0, L("to")>>),
              L("customer"), L("product"), L("service"), L("particular"), L("rate"),
              Cat(<<L("no"), OptDot, Ch(Space)>>),
              Cat(<<L("sr"), OptDot, S0, L("no")>>)>>)>>)

tableHeaderKws ==
  <<"description", "item", "qty", "quantity", "unit price", "price", "amount",
    "total", "tax", "sku", "product", "rate", "particular">>

footerKeywords ==
  Cat(<<Bol,
        Alt(<<Cat(<<L("sub"), S0, L("total")>>), L("subtotal"), L("total"), L("tax"),
              L("gst"), L("vat"), L("shipping"), L("delivery"), L("discount"),
              L("balance"), Cat(<<L("amount"), S1, L("due")>>),
              Cat(<<L("net"), S1, L("amount")>>), Cat(<<L("gross"), S1, L("amount")>>),
              Cat(<<L("grand"), S1, L("total")>>)>>)>>)

HeaderDefault == 8
ScanLimit == 25
FooterTail == 15

\* the number of keywords of kws that the lower-cased line contains
Hits(line, kws) == Cardinality({k \in 1..Len(kws) : Includes(LowerText(line), Str(kws[k]))})

\* the least element of a set of indices, or dflt if there is none (for .. break)
FirstOr(S, dflt) == IF S = {} THEN dflt ELSE CHOOSE i \in S : \A j \in S : i <= j

segmentDocument(lines) ==
  LET total == Len(lines)
      h0 == Min(HeaderDefault, total)
      scan == 0..(Min(ScanLimit, total) - 1)
      h1 == FirstOr({i \in scan : Test(bodyStartKeywords, LowerText(lines[i + 1]))}, h0)
      headerEnd == IF h1 = h0
                   THEN FirstOr({i \in scan : Hits(lines[i + 1], tableHeaderKws) >= 2}, h1)
                   ELSE h1
      f0 == Max((total * 3) \div 4, total - FooterTail)
      footerStart == FirstOr({i \in headerEnd..(total - 1) :
                                /\ Test(footerKeywords, LowerText(lines[i + 1]))
                                /\ i * 100 > total * 35}, f0)
  IN [headerLines |-> Slice(lines, 0, headerEnd),
      bodyLines |-> Slice(lines, headerEnd, footerStart),
      footerLines |-> Slice(lines, footerStart, total)]

(***************************************************************************)
(* primitives.parseLineItem                                                *)
(***************************************************************************)
SUMMARY_LINE_RX ==
  Cat(<<Bol,
        Alt(<<Cat(<<L("sub"), S0, L("total")>>), L("subtotal"), L("total"), L("tax"),
              L("gst"), L("vat"), L("hst"), L("pst"), L("shipping"), L("delivery"),
              L("freight"), L("discount"), L("rebate"), L("balance"),
              Cat(<<L("amount"), S1, L("due")>>), Cat(<<L("amount"), S1, L("paid")>>),
              Cat(<<L("total"), S1, L("amount")>>), Cat(<<L("change"), S1, L("due")>>),
              L("rounding"), L("tip"), L("gratuity"), Cat(<<L("net"), S1, L("amount")>>),
              L("gross"), L("payment"), L("paid"), L("tendered"), L("change"), L("due"),
              L("owing")>>),
        WB>>)

HEADER_LINE_RX ==
  Cat(<<Alt(<<L("description"), Cat(<<L("item"), S0, L("name")>>), L("item"), L("qty"),
              L("quantity"), Cat(<<L("unit"), S0, L("price")>>),
              Cat(<<L("unit"), S0, L("cost")>>), L("price"), L("amount"), L("total"),
              L("tax"), L("sku"), L("product"), L("service"), L("particular"), L("uom"),
              Cat(<<L("unit"), S0, L("of"), S0, L("measure")>>), L("rate"),
              Cat(<<L("no"), OptDot>>)>>),
        WB>>)

\* \d{1,3}(?:,\d{3})*(?:\.\d{1,4})?
NumBody ==
  Cat(<<Rep(Ch(Digit), 1, 3), Star(Cat(<<Ch({","}), Rep(Ch(Digit), 3, 3)>>)),
        Opt(Cat(<<Ch({"."}), Rep(Ch(Digit), 1, 4)>>))>>)

numPattern ==
  Cat(<<Opt(Grp(1, Cat(<<Ch(CurrencySym), S0>>))), Grp(2, NumBody), S0,
        Opt(Grp(3, Ch({"%"})))>>)

TAX_PERCENT ==
  Cat(<<WB, Grp(1, Cat(<<Rep(Ch(Digit), 1, 3),
                         Opt(Cat(<<Ch({"."}), Rep(Ch(Digit), 1, 2)>>))>>)),
        S0, Alt(<<Ch({"%"}), L("percent"), L("pct")>>), WB>>)

SkuCh == UpperCh \cup Digit
SKU_LABELED ==
  Cat(<<Alt(<<L("sku"), Cat(<<L("part"), S0, NoOrHash>>), Cat(<<L("item"), S0, NoOrHash>>),
              L("pn"), Cat(<<L("catalog"), S0, NoOrHash>>)>>),
        Star(Ch(Space \cup {":", "."})),
        Grp(1, Cat(<<Ch(LowerCh \cup Digit),
                     Rep(Ch(LowerCh \cup Digit \cup {"-", "_", "."}), 2, Unbounded)>>))>>)

\* case-sensitive
SKU_BARE ==
  Cat(<<WB, Grp(1, Cat(<<Rep(Ch(UpperCh), 2, 6), Ch({"-"}), Rep(Ch(SkuCh), 2, Unbounded),
                         Ch({"-"}), Rep(Ch(SkuCh), 2, Unbounded)>>)),
        WB>>)

RxTwoSpaces == Rep(Ch(Space), 2, Unbounded)
RxTwoLetters == Rep(Ch(Letter), 2, Unbounded)

\* [\$...]?\s*\d[\d,.\s%xX@*]*   (the multiplication sign is outside the alphabet)
NumCluster ==
  Cat(<<Opt(Ch(CurrencySym)), S0, Ch(Digit),
        Star(Ch(Digit \cup Space \cup {",", ".", "%", "x", "X", "@", "*"}))>>)
RxTrailingNums == Cat(<<S0, NumCluster, Star(Cat(<<S1, NumCluster>>)), S0, Eol>>)

RxRowNumber ==
  Cat(<<Bol, Rep(Ch(Digit), 1, 3), Plus(Ch(Space \cup {".", ")"})), S0>>)

\* (?:SKU|Part\s*(?:No|#))\s*[:.]?\s*<sku>, i flag
RxLabelledSku(sku) ==
  Cat(<<Alt(<<L("sku"), Cat(<<L("part"), S0, NoOrHash>>)>>), S0, Opt(Ch({":", "."})), S0,
        Lit(LowerText(sku))>>)

\* String.prototype.replace(string, ""): the first occurrence
RemoveFirst(s, w) ==
  IF ~Includes(s, w) THEN s
  ELSE LET k == CHOOSE i \in 1..(Len(s) - Len(w) + 1) :
                  /\ SubSeq(s, i, i + Len(w) - 1) = w
                  /\ \A j \in 1..(i - 1) : SubSeq(s, j, j + Len(w) - 1) # w
       IN SubSeq(s, 1, k - 1) \o SubSeq(s, k + Len(w), Len(s))

\* the replace on a lower-cased subject carried back to the original text
ReplaceFirstI(r, s, tmpl) ==
  LET m == Search(r, LowerText(s))
  IN IF ~m.ok THEN s
     ELSE SubSeq(s, 1, m.st - 1) \o Expand(tmpl, s, m.c) \o SubSeq(s, m.en, Len(s))

\* the numeric tokens of a line: [value, isPct] of every match with a positive value
NumTokens(rx, text) ==
  LET ms == MatchAllFrom(rx, text, 1)
      all == [k \in 1..Len(ms) |->
                [value |-> ParseFloat(StripCommas(Cap(ms[k], text, 2))),
                 isPct |-> HasCap(ms[k], 3)]]
  IN SelectSeq(all, LAMBDA t : t.value > 0)

MaxTotal == 9999999
MaxQty == 10000

\* an absent (undefined) text field, as opposed to the empty text <<>>
Absent == <<"<undefined>">>

\* err < 0.05 for err = dist / max(total, 1)
Within5Pct(dist, total) == dist < (Max(total, E4) + 19) \div 20

\* the pair (qi, pi) the double loop over nums ends with: error below 5%, the
\* least such error, the first pair in loop order among equals; <<>> if none
BestMatch(nums, total) ==
  LET n == Len(nums)
      err(a) == Abs(MulE4(nums[a[1]], nums[a[2]]) - total)
      ok == {a \in (1..n) \X (1..n) : a[1] # a[2] /\ Within5Pct(err(a), total)}
      Before(a, b) == a[1] < b[1] \/ (a[1] = b[1] /\ a[2] < b[2])
  IN IF ok = {} THEN <<>>
     ELSE CHOOSE a \in ok :
            \A b \in ok \ {a} : err(a) < err(b) \/ (err(a) = err(b) /\ Before(a, b))

LastOr(S, dflt) == IF S = {} THEN dflt ELSE CHOOSE i \in S : \A j \in S : i >= j

\* quantity, unit price and tax amount from the numbers before the total, bm
\* being the best pair (taxPct is the percentage the positional heuristic
\* passes over)
QtyPriceOf(nums, total, taxPct, bm) ==
  LET n == Len(nums)
      rem == {i \in 1..n : i # bm[1] /\ i # bm[2]}
      qi == FirstOr({i \in 1..n : IsInteger(nums[i]) /\ nums[i] < MaxQty * E4
                                 /\ nums[i] # taxPct}, 0)
      pi == LastOr({i \in 1..n : nums[i] # nums[qi] /\ nums[i] # taxPct}, 0)
  IN IF n >= 2
     THEN IF bm # <<>>
          THEN [quantity |-> nums[bm[1]], unitPrice |-> nums[bm[2]],
                taxAmount |-> IF Cardinality(rem) = 1
                              THEN nums[CHOOSE i \in rem : TRUE] ELSE None]
          ELSE IF qi # 0
          THEN [quantity |-> nums[qi],
                unitPrice |-> IF pi # 0 THEN nums[pi] ELSE None, taxAmount |-> None]
          ELSE [quantity |-> E4, unitPrice |-> nums[n], taxAmount |-> None]
     ELSE IF n = 1
     THEN IF IsInteger(nums[1]) /\ nums[1] < MaxQty * E4 /\ nums[1] > 0
             /\ total >= 100 * (nums[1] \div E4)
          THEN [quantity |-> nums[1], unitPrice |-> DivE4(total, nums[1]),
                taxAmount |-> None]
          ELSE [quantity |-> E4, unitPrice |-> nums[1], taxAmount |-> None]
     ELSE [quantity |-> E4, unitPrice |-> None, taxAmount |-> None]

QtyPrice(nums, total, taxPct) ==
  QtyPriceOf(nums, total, taxPct, IF Len(nums) >= 2 THEN BestMatch(nums, total) ELSE <<>>)

TooLarge(total) ==
  total \div E4 > MaxTotal \/ (total \div E4 = MaxTotal /\ total % E4 > 0)

\* the name with an embedded SKU cut out of it
StripSku(name, sku, segments) ==
  LET cutA == Trim(ReplaceFirstI(RxLabelledSku(sku), name, <<>>))
      cutB == IF Includes(cutA, sku) THEN Trim(RemoveFirst(cutA, sku)) ELSE cutA
  IN IF sku # Absent /\ Includes(name, sku)
     THEN (IF Len(cutB) = 0 THEN segments[1] ELSE cutB)
     ELSE name

\* the name without a leading row number; the first segment if too little is left
StripRowNumber(name, segments) ==
  LET name3 == Trim(ReplaceFirst(RxRowNumber, name, <<>>))
  IN IF Len(name3) < 2 THEN segments[1] ELSE name3

\* the first segment with two letters, else the line without its trailing numbers
SegmentName(trimmed, segments) ==
  LET named == {k \in 1..Len(segments) : Test(RxTwoLetters, segments[k])}
      name0 == IF named = {} THEN <<>> ELSE Trim(segments[FirstOr(named, 0)])
  IN IF Len(name0) < 2
     THEN Trim(ReplaceFirst(RxTrailingNums, trimmed, <<>>)) ELSE name0

LineItemNameOf(trimmed, sku, segments) ==
  StripRowNumber(StripSku(SegmentName(trimmed, segments), sku, segments), segments)

\* the item name parseLineItem cuts from the line
LineItemName(trimmed, sku) == LineItemNameOf(trimmed, sku, SplitRx(RxTwoSpaces, trimmed))

\* taxPercentage: the first token with a % suffix, else the TAX_PERCENT match
LineTaxPct(numTokens, trimmed) ==
  LET pctIdx == FirstOr({k \in 1..Len(numTokens) : numTokens[k].isPct}, 0)
      taxPctMatch == Search(TAX_PERCENT, LowerText(trimmed))
  IN IF pctIdx # 0 THEN numTokens[pctIdx].value
     ELSE IF taxPctMatch.ok THEN ParseFloat(Cap(taxPctMatch, trimmed, 1))
     ELSE None

FirstSku(skuLabeled, skuBare, text) ==
  IF skuLabeled.ok THEN Cap(skuLabeled, text, 1)
  ELSE IF skuBare.ok THEN Cap(skuBare, text, 1) ELSE Absent

LineSku(trimmed) ==
  FirstSku(Search(SKU_LABELED, LowerText(trimmed)), Search(SKU_BARE, trimmed), trimmed)

\* the values of the tokens that carry no % and differ from the tax percentage
CandidateNums(numTokens, taxPct) ==
  LET cand == SelectSeq(numTokens, LAMBDA t : ~t.isPct /\ t.value # taxPct)
  IN [k \in 1..Len(cand) |-> cand[k].value]

\* the part returned for a line, qp being its quantity, unit price and tax amount
LinePart(itemName, sku, taxPercentage, totalAmount, qp, defaultTaxPct) ==
  LET unitPrice == IF qp.unitPrice = None /\ qp.quantity > 0 /\ totalAmount > 0
                   THEN DivE4(totalAmount, qp.quantity) ELSE qp.unitPrice
      base == MulE4(qp.quantity, unitPrice)
      tax1 == IF qp.taxAmount = None /\ taxPercentage # None /\ unitPrice # None
              THEN PctOf(base, taxPercentage) ELSE qp.taxAmount
      useDefault == tax1 = None /\ defaultTaxPct # None /\ unitPrice # None
  IN [itemName |-> itemName,
      description |-> Absent,
      sku |-> sku,
      partNumber |-> Absent,
      quantity |-> qp.quantity,
      unitPrice |-> unitPrice,
      taxPercentage |-> IF useDefault THEN defaultTaxPct ELSE taxPercentage,
      taxAmount |-> IF useDefault THEN PctOf(base, defaultTaxPct) ELSE tax1,
      totalAmount |-> totalAmount]

LineItemOfNums(trimmed, sku, taxPercentage, nums, totalAmount, defaultTaxPct) ==
  IF totalAmount <= 0 \/ TooLarge(totalAmount) THEN <<>>
  ELSE <<LinePart(LineItemName(trimmed, sku), sku, taxPercentage, totalAmount,
                  QtyPrice(nums, totalAmount, taxPercentage), defaultTaxPct)>>

LineItemOfCandidates(trimmed, taxPercentage, candidateNums, defaultTaxPct) ==
  IF Len(candidateNums) = 0 THEN <<>>
  ELSE LineItemOfNums(trimmed, LineSku(trimmed), taxPercentage,
                      SubSeq(candidateNums, 1, Len(candidateNums) - 1),
                      candidateNums[Len(candidateNums)], defaultTaxPct)

LineItemOfTax(trimmed, numTokens, taxPercentage, defaultTaxPct) ==
  LineItemOfCandidates(trimmed, taxPercentage, CandidateNums(numTokens, taxPercentage),
                       defaultTaxPct)

LineItemOfTokens(trimmed, numTokens, defaultTaxPct) ==
  IF Len(numTokens) = 0 THEN <<>>
  ELSE LineItemOfTax(trimmed, numTokens, LineTaxPct(numTokens, trimmed), defaultTaxPct)

LineItemOfTrimmed(trimmed, low, defaultTaxPct) ==
  IF Len(trimmed) < 4 THEN <<>>
  ELSE IF Test(SUMMARY_LINE_RX, low) THEN <<>>
  ELSE IF Test(HEADER_LINE_RX, low) /\ ~Test(Ch(Digit), trimmed) THEN <<>>
  ELSE LineItemOfTokens(trimmed, NumTokens(numPattern, trimmed), defaultTaxPct)

\* <<>> for null, <<part>> for a parsed line item
parseLineItem(line, defaultTaxPct) ==
  LineItemOfTrimmed(Trim(line), LowerText(Trim(line)), defaultTaxPct)

(***************************************************************************)
(* RuleBasedParser.extractFromColumnTable                                  *)
(***************************************************************************)
headerKws ==
  <<"description", "item", "qty", "quantity", "unit price", "unit cost", "price",
    "amount", "total", "tax", "sku", "product", "service", "particular", "rate", "no.">>

tableFooterRx ==
  Cat(<<Bol,
        Alt(<<Cat(<<L("sub"), S0, L("total")>>), L("subtotal"), L("total"),
              Cat(<<L("grand"), S0, L("total")>>), L("gst"), L("tax"), L("vat"),
              L("shipping"), L("discount"), L("balance"),
              Cat(<<L("net"), S1, L("amount")>>), L("gross"),
              Cat(<<L("amount"), S1, L("due")>>)>>)>>)

numRx ==
  Cat(<<Grp(1, Cat(<<Opt(Ch(CurrencySym)), S0>>)), Grp(2, NumBody), S0,
        Opt(Grp(3, Ch({"%"})))>>)

\* ^[\dA-Z][\w\-/.]{2,}$
RxPartCode ==
  Cat(<<Bol, Ch(Digit \cup UpperCh), Rep(Ch(WordCh \cup {"-", "/", "."}), 2, Unbounded), Eol>>)

\* \s{2,}[\d$...,.%]+.*$
RxTrailingCols ==
  Cat(<<Rep(Ch(Space), 2, Unbounded),
        Plus(Ch(Digit \cup {"$", "<eur>", "<gbp>", ",", ".", "%"})), Star(NCh({NL})), Eol>>)

RxTwoDigits == Rep(Ch(Digit), 2, Unbounded)
NameLimit == 80

inferTaxPct(line) ==
  LET m == Search(TAX_PERCENT, LowerText(line))
  IN IF m.ok THEN ParseFloat(Cap(m, line, 1)) ELSE None

\* itemName.match(SKU_LABELED) ?? itemName.match(SKU_BARE)
SkuMatch(text) ==
  LET a == Search(SKU_LABELED, LowerText(text))
  IN IF a.ok THEN a ELSE Search(SKU_BARE, text)

\* line.split(/\s{2,}/), each segment trimmed
RowSegments(line) ==
  LET segs == SplitRx(RxTwoSpaces, line) IN [k \in 1..Len(segs) |-> Trim(segs[k])]

\* the row's item name: the first segment with two letters, else the line
\* without its trailing columns; a leading row number is cut off
RowName(line, trimSeg) ==
  LET named == {k \in 1..Len(trimSeg) : Len(trimSeg[k]) > 0 /\ Test(RxTwoLetters, trimSeg[k])}
      name0 == IF named = {} THEN <<>> ELSE trimSeg[FirstOr(named, 0)]
      stripped == Trim(ReplaceFirst(RxTrailingCols, line, <<>>))
      name1 == IF Len(name0) < 2 THEN SubSeq(stripped, 1, Min(NameLimit, Len(stripped)))
               ELSE name0
  IN Trim(ReplaceFirst(RxRowNumber, name1, <<>>))

\* the first code-like segment without letters, Absent if there is none
RowPartNumber(trimSeg) ==
  LET coded == {k \in 1..Len(trimSeg) : /\ Len(trimSeg[k]) > 0
                                        /\ ~Test(RxTwoLetters, trimSeg[k])
                                        /\ Test(RxPartCode, trimSeg[k])
                                        /\ Test(Ch(Digit), trimSeg[k])}
  IN IF coded = {} THEN Absent ELSE trimSeg[FirstOr(coded, 0)]

\* is the line after row i a description line
RowHasDesc(lines, i) ==
  /\ i + 1 < Len(lines)
  /\ Len(Trim(lines[i + 2])) > 3
  /\ ~Test(RxTwoDigits, Trim(lines[i + 2]))
  /\ ~Test(tableFooterRx, LowerText(Trim(lines[i + 2])))
  /\ Test(RxTwoLetters, Trim(lines[i + 2]))

\* the part pushed for a row
RowPart(itemName, partNumber, description, taxPct, total, qp, skuM) ==
  LET unitPrice == IF qp.unitPrice = None /\ qp.quantity > 0 /\ total > 0
                   THEN DivE4(total, qp.quantity) ELSE qp.unitPrice
      sku == IF skuM.ok THEN Cap(skuM, itemName, 1) ELSE Absent
      cut == Trim(RemoveFirst(itemName, SubSeq(itemName, skuM.st, skuM.en - 1)))
  IN [itemName |-> IF skuM.ok /\ Len(cut) > 0 THEN cut ELSE itemName,
      description |-> description,
      sku |-> sku,
      partNumber |-> IF partNumber # Absent THEN partNumber ELSE sku,
      quantity |-> qp.quantity,
      unitPrice |-> unitPrice,
      taxPercentage |-> taxPct,
      taxAmount |-> IF qp.taxAmount = None /\ taxPct # None /\ unitPrice # None
                    THEN PctOf(MulE4(qp.quantity, unitPrice), taxPct) ELSE qp.taxAmount,
      totalAmount |-> total]

TableRowOf(lines, i, line, candidateNums, taxPct, itemName, hasDesc) ==
  IF Len(candidateNums) = 0 \/ Len(itemName) < 2 \/ ~Test(RxTwoLetters, itemName)
  THEN [item |-> <<>>, next |-> i + 1]
  ELSE [item |-> <<RowPart(itemName, RowPartNumber(RowSegments(line)),
                           IF hasDesc THEN Trim(lines[i + 2]) ELSE Absent,
                           taxPct, candidateNums[Len(candidateNums)],
                           QtyPrice(SubSeq(candidateNums, 1, Len(candidateNums) - 1),
                                    candidateNums[Len(candidateNums)], None),
                           SkuMatch(itemName))>>,
        next |-> IF hasDesc THEN i + 2 ELSE i + 1]

TableRowOfNums(lines, i, line, nums, taxPct) ==
  IF Len(Trim(line)) < 4 \/ Len(nums) = 0 THEN [item |-> <<>>, next |-> i + 1]
  ELSE TableRowOf(lines, i, line, CandidateNums(nums, taxPct), taxPct,
                  RowName(line, RowSegments(line)), RowHasDesc(lines, i))

\* one data row of the table: item is <<>> when the row is passed over, else
\* <<part>>; next is the line after the row (after its description line, if any)
TableRow(lines, i) ==
  TableRowOfNums(lines, i, lines[i + 1], NumTokens(numRx, lines[i + 1]),
                 inferTaxPct(lines[i + 1]))

RECURSIVE TableRows(_, _)
TableRowsAfter(lines, row) == row.item \o TableRows(lines, row.next)

\* the loop over the lines after the header row, up to the first footer line
TableRows(lines, i) ==
  IF i >= Len(lines) THEN <<>>
  ELSE IF Test(tableFooterRx, LowerText(Trim(lines[i + 1]))) THEN <<>>
  ELSE TableRowsAfter(lines, TableRow(lines, i))

extractFromColumnTable(lines) ==
  LET headerIdx == FirstOr({i \in 0..(Len(lines) - 1) : Hits(lines[i + 1], headerKws) >= 2}, -1)
  IN IF headerIdx < 0 THEN <<>> ELSE TableRows(lines, headerIdx + 1)

(***************************************************************************)
(* RuleBasedParser.extractMultiLineItems                                   *)
(***************************************************************************)
multiFooterRx ==
  Cat(<<Bol,
        Alt(<<Cat(<<L("sub"), S0, L("total")>>), L("subtotal"), L("total"), L("gst"),
              L("tax"), L("vat"), L("shipping"), L("discount"), L("balance")>>)>>)

\* ^[A-Za-z][^$...\d]*$
descOnlyRx ==
  Cat(<<Bol, Ch(Letter), Star(NCh({"$", "<eur>", "<gbp>"} \cup Digit)), Eol>>)

\* is the line after item line i a description line
MultiHasDesc(lines, i) ==
  /\ i + 1 < Len(lines)
  /\ Len(Trim(lines[i + 2])) > 3
  /\ Test(descOnlyRx, Trim(lines[i + 2]))
  /\ ~Test(multiFooterRx, LowerText(Trim(lines[i + 2])))

RECURSIVE MultiRows(_, _)
\* the item of line i with the description (j = i + 1 if it has one, else
\* j = i) and the SKU of the line after j, and the items of the lines after
MultiItem(lines, i, item, j, skuM) ==
  IF Len(item) = 0 THEN MultiRows(lines, i + 1)
  ELSE <<[item[1] EXCEPT
            !.description = IF j > i THEN Trim(lines[j + 1]) ELSE @,
            !.sku = IF i + 1 < Len(lines) /\ skuM.ok
                    THEN Cap(skuM, Trim(lines[j + 2]), 1) ELSE @]>>
       \o MultiRows(lines, (IF i + 1 < Len(lines) /\ skuM.ok THEN j + 1 ELSE j) + 1)

MultiItemDesc(lines, i, item, j) ==
  MultiItem(lines, i, item, j,
            IF j + 1 < Len(lines) THEN Search(SKU_LABELED, LowerText(Trim(lines[j + 2])))
            ELSE NoMatch)

MultiRows(lines, i) ==
  IF i >= Len(lines) THEN <<>>
  ELSE IF Test(multiFooterRx, LowerText(Trim(lines[i + 1]))) THEN <<>>
  ELSE MultiItemDesc(lines, i, parseLineItem(lines[i + 1], None),
                     IF MultiHasDesc(lines, i) THEN i + 1 ELSE i)

extractMultiLineItems(lines) == MultiRows(lines, 0)

(***************************************************************************)
(* RuleBasedParser.extractVerticalFormItems                                *)
(***************************************************************************)
labelMap ==
  << <<"part number", "partNumber">>, <<"part no", "partNumber">>,
     <<"part#", "partNumber">>, <<"item no", "partNumber">>,
     <<"item number", "partNumber">>, <<"description", "description">>,
     <<"line description", "description">>, <<"item description", "description">>,
     <<"quantity", "quantity">>, <<"qty", "quantity">>, <<"net", "unitPrice">>,
     <<"unit price", "unitPrice">>, <<"unit cost", "unitPrice">>,
     <<"price", "listPrice">>, <<"total", "total">>, <<"line total", "total">>,
     <<"amount", "total">>, <<"core deposit", "coreDeposit">> >>

numericFields == {"quantity", "unitPrice", "listPrice", "total", "coreDeposit"}

\* labelMap[key]: the field of a label, "" for a key that is no label
FieldOf(key) ==
  LET hit == {k \in 1..Len(labelMap) : Str(labelMap[k][1]) = key}
  IN IF hit = {} THEN "" ELSE labelMap[CHOOSE k \in hit : TRUE][2]

\* [:.]+$
RxTrailingColon == Cat(<<Plus(Ch({":", "."})), Eol>>)
\* .trim().toLowerCase().replace(/[:.]+$/, "").trim()
LabelKey(line) == Trim(ReplaceFirst(RxTrailingColon, LowerText(Trim(line)), <<>>))

vTotalsRx ==
  Cat(<<Bol, Alt(<<Cat(<<L("sub"), S0, L("total")>>), L("subtotal"), L("total"), L("tax"),
                   L("gst"), L("vat"), L("shipping")>>)>>)

qtyInlineRx ==
  Cat(<<WB, L("qty"), S0, Opt(Ch({":", "."})), S0, Grp(1, Plus(Ch(Digit))), WB>>)

vStartRx == Cat(<<Bol, Alt(<<Cat(<<L("part"), S0, L("number")>>), L("description")>>)>>)

vStopRx ==
  Cat(<<Bol, Alt(<<Cat(<<L("sub"), S0, L("total")>>), L("subtotal"), L("total"), L("tax"),
                   L("gst"), L("vat"), L("invoice"), L("customer"), L("employee"),
                   L("sales"), L("salesman"), L("attention"), L("terms"), L("delivery"),
                   L("tender"), L("paid")>>)>>)

RxThreeLetters == Rep(Ch(Letter), 3, Unbounded)
RxCodeOnly == Cat(<<Bol, Plus(Ch(Digit \cup {"-", ".", "/", "#"})), Eol>>)

\* ^\$?\s*([\d,]+\.\d{1,4})\s*$
standaloneAmountRx ==
  Cat(<<Bol, Opt(Ch({"$"})), S0,
        Grp(1, Cat(<<Plus(Ch(Digit \cup {","})), Ch({"."}), Rep(Ch(Digit), 1, 4)>>)),
        S0, Eol>>)

LookAhead == 3
CoreLookAhead == 4
MinDescLen == 5
\* a core deposit no larger than this is taken for a quantity
CoreQtyMax == 2

NoneCollected ==
  [partNumber |-> Absent, description |-> Absent, quantity |-> Absent,
   unitPrice |-> Absent, listPrice |-> Absent, total |-> Absent, coreDeposit |-> Absent]

RECURSIVE ValueAfter(_, _, _, _)
\* the look-ahead for the value of the label on line i: the value's text, or
\* Absent when the look-ahead breaks off without one
ValueAfter(lines, field, j, stop) ==
  IF j >= stop THEN Absent
  ELSE LET val == Trim(lines[j + 1])
       IN IF Len(val) = 0 THEN ValueAfter(lines, field, j + 1, stop)
          ELSE IF FieldOf(LabelKey(val)) # "" THEN Absent
          ELSE IF Test(vTotalsRx, LowerText(val)) THEN Absent
          ELSE IF field \in numericFields /\ ~Test(Ch(Digit), val) THEN Absent
          ELSE val

RECURSIVE CollectLabels(_, _, _)
\* the first loop: st = [c: collected, n: foundLabels]
CollectLabels(lines, i, st) ==
  IF i >= Len(lines) THEN st
  ELSE LET field == FieldOf(LabelKey(lines[i + 1]))
           val == ValueAfter(lines, field, i + 1, Min(i + LookAhead, Len(lines)))
       IN IF field # "" /\ val # Absent /\ st.c[field] = Absent
          THEN CollectLabels(lines, i + 1, [c |-> [st.c EXCEPT ![field] = val], n |-> st.n + 1])
          ELSE CollectLabels(lines, i + 1, st)

\* the second loop: the first inline "Qty: N" when no quantity was collected
CollectQty(lines, st) ==
  LET hit == {i \in 1..Len(lines) : Test(qtyInlineRx, LowerText(lines[i]))}
      line == lines[FirstOr(hit, 0)]
  IN IF hit # {} /\ st.c.quantity = Absent
     THEN [c |-> [st.c EXCEPT !.quantity = Cap(Search(qtyInlineRx, LowerText(line)), line, 1)],
           n |-> st.n + 1]
     ELSE st

RECURSIVE FindDescription(_, _, _)
\* the scan for the first substantive text line after the labels begin
FindDescription(lines, i, partNumber) ==
  IF i >= Len(lines) THEN Absent
  ELSE LET trimmed == Trim(lines[i + 1])
       IN IF Len(trimmed) < MinDescLen THEN FindDescription(lines, i + 1, partNumber)
          ELSE IF FieldOf(LabelKey(trimmed)) # "" THEN FindDescription(lines, i + 1, partNumber)
          ELSE IF Test(vStopRx, LowerText(trimmed)) THEN Absent
          ELSE IF Test(RxThreeLetters, trimmed) /\ ~Test(RxCodeOnly, trimmed)
               THEN (IF trimmed = partNumber THEN FindDescription(lines, i + 1, partNumber)
                     ELSE trimmed)
          ELSE FindDescription(lines, i + 1, partNumber)

CollectDescription(lines, st) ==
  LET startIdx == FirstOr({i \in 0..(Len(lines) - 1) :
                             Test(vStartRx, LowerText(Trim(lines[i + 1])))}, -1)
      found == FindDescription(lines, startIdx + 1, st.c.partNumber)
  IN IF st.c.description = Absent /\ st.c.partNumber # Absent /\ startIdx >= 0
        /\ found # Absent
     THEN [st EXCEPT !.c.description = found]
     ELSE st

parseAmt(s) ==
  IF s = Absent THEN None
  ELSE LET n == ParseFloat(KeepDigitsDots(s)) IN IF n = NaN THEN None ELSE n

\* total / 0
Infinity == 2147483647

\* the amount standing alone on one of the lines after the line-item total
CoreAfterTotal(lines, totalVal) ==
  LET totalIdx == FirstOr({i \in 0..(Len(lines) - 1) : Trim(lines[i + 1]) = totalVal}, -1)
      Amt(k) == LET t == Trim(lines[k + 1])
                    m == Search(standaloneAmountRx, t)
                IN IF m.ok THEN ParseFloat(StripCommas(Cap(m, t, 1))) ELSE None
      hit == {k \in (totalIdx + 1)..(Min(totalIdx + CoreLookAhead, Len(lines)) - 1) :
                Amt(k) > CoreQtyMax * E4}
  IN IF totalIdx >= 0 /\ hit # {} THEN Amt(FirstOr(hit, 0)) ELSE None

VerticalPart(name, partNumber, quantity, unitPrice, total) ==
  [itemName |-> name, description |-> Absent, sku |-> Absent, partNumber |-> partNumber,
   quantity |-> quantity, unitPrice |-> unitPrice, taxPercentage |-> None,
   taxAmount |-> None, totalAmount |-> total]

\* the items built from what the scans collected (n = foundLabels)
VerticalItems(allLines, collected, n) ==
  LET price == parseAmt(collected.unitPrice)
      unitPrice == IF price # None THEN price ELSE parseAmt(collected.listPrice)
      amt == parseAmt(collected.total)
      total == IF amt # None THEN amt ELSE unitPrice
      qty == parseAmt(collected.quantity)
      quantity == IF qty # None THEN qty ELSE E4
      item == VerticalPart(
                IF collected.description # Absent THEN collected.description
                ELSE IF collected.partNumber # Absent THEN collected.partNumber ELSE <<>>,
                collected.partNumber, quantity,
                IF unitPrice # None THEN unitPrice
                ELSE IF total > 0 THEN (IF quantity = 0 THEN Infinity
                                        ELSE DivE4(total, quantity))
                ELSE None,
                IF total # None THEN total
                ELSE IF unitPrice > 0 THEN MulE4(unitPrice, quantity) ELSE 0)
      core0 == parseAmt(collected.coreDeposit)
      later == CoreAfterTotal(allLines, collected.total)
      coreDeposit == IF core0 # None /\ core0 <= CoreQtyMax * E4
                        /\ collected.total # Absent /\ Len(collected.total) > 0
                        /\ later # None
                     THEN later ELSE core0
  IN IF n < 2 \/ (collected.description = Absent /\ collected.partNumber = Absent)
     THEN <<>>
     ELSE IF total <= 0 /\ unitPrice <= 0 THEN <<>>
     ELSE <<item>> \o
          (IF coreDeposit > 0
           THEN <<VerticalPart(Str("Core Deposit"), Absent, E4, coreDeposit, coreDeposit)>>
           ELSE <<>>)

VerticalItemsOf(allLines, st) == VerticalItems(allLines, st.c, st.n)

extractVerticalFormItems(allLines) ==
  VerticalItemsOf(allLines,
    CollectDescription(allLines,
      CollectQty(allLines,
        CollectLabels(allLines, 0, [c |-> NoneCollected, n |-> 0]))))

(***************************************************************************)
(* RuleBasedParser.extractParts                                            *)
(***************************************************************************)
RECURSIVE PerLine(_)
\* lines.forEach(line => { item = parseLineItem(line); if (item) items.push(item) })
PerLine(lines) ==
  IF Len(lines) = 0 THEN <<>> ELSE parseLineItem(lines[1], None) \o PerLine(Tail(lines))

\* the lists of the five strategies, in the order the code tries them
StrategyLists(bodyLines, allLines) ==
  <<extractFromColumnTable(bodyLines), extractVerticalFormItems(allLines),
    extractMultiLineItems(bodyLines), PerLine(bodyLines), PerLine(allLines)>>

\* the first non-empty list of ls, the last one if all before it are empty
FirstNonEmpty(ls) ==
  LET full == {k \in 1..(Len(ls) - 1) : Len(ls[k]) > 0}
  IN ls[FirstOr(full, Len(ls))]

\* the multi-line heuristic tried before the vertical form
MultiFirst(ls) == <<ls[1], ls[3], ls[2], ls[4], ls[5]>>
extractPartsMultiFirst(bodyLines, allLines) ==
  FirstNonEmpty(MultiFirst(StrategyLists(bodyLines, allLines)))

extractParts(bodyLines, allLines) == FirstNonEmpty(StrategyLists(bodyLines, allLines))

(***************************************************************************)
(* primitives.extractLabeledAmount; a label pattern is handed over as a    *)
(* pattern of this module, in lower case                                   *)
(***************************************************************************)
AmountCh == Digit \cup {","}
\* [\d,]+\.\d+|[\d,]{2,}(?![/\-])
RxAmountOrInt ==
  Alt(<<Cat(<<Plus(Ch(AmountCh)), Ch({"."}), Plus(Ch(Digit))>>),
        Cat(<<Rep(Ch(AmountCh), 2, Unbounded), NLookA(Ch({"/", "-"}))>>)>>)

sameLineRx(label) ==
  Cat(<<label,
        Opt(Cat(<<S0, Ch({"("}), Star(NCh({")"})), Ch({")"})>>)),
        Star(Ch(Space \cup {"-", ":"})),
        Star(Ch(LowerCh \cup CurrencySym)),
        S0, Grp(1, RxAmountOrInt)>>)

\* [\d,]+\.\d{1,4}
RxDecimal == Cat(<<Plus(Ch(AmountCh)), Ch({"."}), Rep(Ch(Digit), 1, 4)>>)
inlineNumRx == Cat(<<Opt(Ch(CurrencySym)), S0, Grp(1, RxDecimal)>>)

labelStopRx ==
  Cat(<<Bol, Alt(<<Cat(<<L("sub"), S0, L("total")>>), L("subtotal"), L("total"), L("tax"),
                   L("amount"), L("discount"), L("shipping"), L("net"), L("gross"),
                   L("balance"), L("paid"), L("tender"), L("grand")>>),
        WB>>)

aloneAmountRx == Cat(<<Bol, Opt(Ch(CurrencySym)), S0, Grp(1, RxDecimal), S0, Eol>>)

AmountLookAhead == 5

\* parseFloat(m[1].replace(/,/g, "")) of a match, None without a match
AmountOf(m, text) == IF m.ok THEN ParseFloat(StripCommas(Cap(m, text, 1))) ELSE None

RECURSIVE AmountAhead(_, _, _)
\* the standalone amount on one of the lines j .. stop-1, up to the next label
AmountAhead(lines, j, stop) ==
  IF j >= stop THEN None
  ELSE LET trimJ == Trim(lines[j + 1])
           n == AmountOf(Search(aloneAmountRx, trimJ), trimJ)
       IN IF Test(labelStopRx, LowerText(trimJ)) THEN None
          ELSE IF n > 0 THEN n
          ELSE AmountAhead(lines, j + 1, stop)

RECURSIVE LabelLines(_, _, _)
\* the multi-line phase: a line carrying the label, its own decimal amount or
\* a standalone amount on the lines after it
LabelLines(lines, label, i) ==
  IF i >= Len(lines) THEN None
  ELSE LET low == LowerText(lines[i + 1])
           afterLabel == ReplaceAll(label, low, <<>>)
           inline == AmountOf(Search(inlineNumRx, afterLabel), afterLabel)
           ahead == AmountAhead(lines, i + 1, Min(i + AmountLookAhead, Len(lines)))
       IN IF ~Test(label, low) THEN LabelLines(lines, label, i + 1)
          ELSE IF inline > 0 THEN inline
          ELSE IF ahead # None THEN ahead
          ELSE LabelLines(lines, label, i + 1)

\* None for undefined
extractLabeledAmount(text, label) ==
  LET slM == Search(sameLineRx(label), LowerText(text))
      n == AmountOf(slM, text)
  IN IF slM.ok /\ n >= 0 THEN n ELSE LabelLines(SplitNL(text), label, 0)

(***************************************************************************)
(* RuleBasedParser.extractTotals                                           *)
(***************************************************************************)
Gst == Alt(<<L("gst"), L("tax"), L("vat")>>)
lblSubtotal == Alt(<<Cat(<<L("sub"), S0, L("total")>>), L("subtotal")>>)
lblTaxTotal ==
  Alt(<<Cat(<<L("total"), S1, Gst>>), Cat(<<Gst, S1, L("total")>>),
        Cat(<<L("total"), S1, L("tax")>>)>>)
lblTax == Gst
lblShipping == Alt(<<L("shipping"), L("delivery"), L("freight"), L("carriage")>>)
lblDiscount == Alt(<<L("discount"), L("savings"), L("rebate")>>)
lblGrandTotal ==
  Alt(<<Cat(<<L("grand"), S1, L("total")>>),
        Cat(<<L("total"), S1, L("amount"), S1, L("due")>>),
        Cat(<<L("total"), S1, L("due")>>)>>)
lblAmountDue == Alt(<<Cat(<<L("amount"), S1, L("due")>>), Cat(<<L("balance"), S1, L("due")>>)>>)
lblAmountColon == Cat(<<L("amount"), S0, Ch({":"})>>)
lblTotal == Cat(<<WB, L("total"), WB>>)
lblAmountPaid ==
  Alt(<<Cat(<<L("amount"), S1, L("paid")>>), Cat(<<L("cash"), S1, L("tendered")>>),
        L("tendered")>>)
lblBalanceDue == Alt(<<Cat(<<L("balance"), S1, L("due")>>), Cat(<<L("change"), S1, L("due")>>)>>)

\* \bpct\b.*%   and   \btaxtable\b
posPctRx == Cat(<<WB, L("pct"), WB, Star(NCh({NL})), Ch({"%"})>>)
posTaxTableRx == Cat(<<WB, L("taxtable"), WB>>)

MinFooterLen == 10
PosLookAhead == 5

RECURSIVE SumTotals(_)
SumTotals(parts) ==
  IF Len(parts) = 0 THEN 0 ELSE parts[1].totalAmount + SumTotals(Tail(parts))

\* parseFloat(x.toFixed(2))
Round2(x) == ((x + 50) \div 100) * 100

\* a ?? b
Coalesce(a, b) == IF a # None THEN a ELSE b

\* the POS-style tax: the smaller of the first two standalone amounts on the
\* lines after the first PCT / TAXTABLE line
PosTax(fullText) ==
  LET taxLines == SplitNL(fullText)
      hit == {i \in 0..(Len(taxLines) - 1) :
                \/ Test(posPctRx, LowerText(taxLines[i + 1]))
                \/ Test(posTaxTableRx, LowerText(taxLines[i + 1]))}
      i0 == FirstOr(hit, 0)
      Amt(j) == LET t == Trim(taxLines[j + 1]) IN AmountOf(Search(standaloneAmountRx, t), t)
      js == {j \in (i0 + 1)..(Min(i0 + PosLookAhead, Len(taxLines)) - 1) :
               Test(standaloneAmountRx, Trim(taxLines[j + 1]))}
      j1 == FirstOr(js, 0)
      j2 == FirstOr(js \ {j1}, 0)
  IN IF hit # {} /\ Cardinality(js) >= 2 THEN Min(Amt(j1), Amt(j2)) ELSE None

extractTotals(fullText, footerText, parts) ==
  LET search == (IF Len(footerText) > MinFooterLen THEN footerText \o <<NL>> ELSE <<>>)
                \o fullText
      footerSearch == IF Len(footerText) > MinFooterLen THEN footerText ELSE fullText
      subtotal == Coalesce(extractLabeledAmount(search, lblSubtotal),
                           IF Len(parts) > 0 THEN Round2(SumTotals(parts)) ELSE None)
      posTax == PosTax(fullText)
  IN [subtotal |-> subtotal,
      totalTax |-> IF posTax # None THEN posTax
                   ELSE Coalesce(extractLabeledAmount(search, lblTaxTotal),
                                 extractLabeledAmount(search, lblTax)),
      shippingCost |-> extractLabeledAmount(search, lblShipping),
      discount |-> extractLabeledAmount(search, lblDiscount),
      grandTotal |->
        Coalesce(extractLabeledAmount(search, lblGrandTotal),
        Coalesce(extractLabeledAmount(search, lblAmountDue),
        Coalesce(extractLabeledAmount(search, lblAmountColon),
        Coalesce(extractLabeledAmount(footerSearch, lblTotal),
        Coalesce(subtotal, 0))))),
      amountPaid |-> extractLabeledAmount(search, lblAmountPaid),
      balanceDue |-> extractLabeledAmount(search, lblBalanceDue)]

(***************************************************************************)
(* RuleBasedParser.extractTransaction: the purchase-order number           *)
(***************************************************************************)
H0 == Star(Ch(SpaceNoNL))
NoHashNumber == Alt(<<Cat(<<L("no"), OptDot>>), L("#"), L("number")>>)
\* p\.?o\.?
PoAbbrev == Cat(<<Ch({"p"}), OptDot, Ch({"o"}), OptDot>>)
MaxTokenTail == 30
\* [A-Z0-9][\w\-/]{1,30}, i flag
RxToken == Cat(<<Ch(LowerCh \cup Digit), Rep(Ch(WordCh \cup {"-", "/"}), 1, MaxTokenTail)>>)

poRx ==
  Cat(<<Alt(<<Cat(<<PoAbbrev, H0, Plus(Ch({"#", ":"}))>>),
              Cat(<<L("purchase"), H0, L("order"), H0, NoHashNumber, H0,
                    Star(Ch({"#", ":"}))>>)>>),
        H0, Opt(Ch({":"})), H0, Grp(1, RxToken)>>)

poLabelLineRx ==
  Cat(<<Bol, S0,
        Alt(<<Cat(<<PoAbbrev, S0, Opt(Ch({"#", ":"}))>>),
              Cat(<<L("purchase"), S0, L("order"), S0, Opt(NoHashNumber)>>)>>),
        S0, Opt(Ch({":"})), S0, Eol>>)

RxTokenLine == Cat(<<Bol, RxToken, Eol>>)
PoLookAhead == 3

\* the value on one of the lines after label line i, Absent if there is none
PoValueAfter(poLines, i) ==
  LET js == {j \in (i + 1)..(Min(i + PoLookAhead, Len(poLines)) - 1) :
               LET val == Trim(poLines[j + 1])
               IN Len(val) > 0 /\ Test(RxTokenLine, LowerText(val))}
  IN IF js = {} THEN Absent ELSE Trim(poLines[FirstOr(js, 0) + 1])

\* tx.purchaseOrderNumber, Absent when the code leaves it unset
purchaseOrderNumber(fullText) ==
  LET poM == Search(poRx, LowerText(fullText))
      poLines == SplitNL(fullText)
      hit == {i \in 0..(Len(poLines) - 2) :
                /\ Test(poLabelLineRx, LowerText(poLines[i + 1]))
                /\ PoValueAfter(poLines, i) # Absent}
  IN IF poM.ok THEN Trim(Cap(poM, fullText, 1))
     ELSE IF hit = {} THEN Absent
     ELSE PoValueAfter(poLines, FirstOr(hit, 0))

(***************************************************************************)
(* normaliseOCRText                                                        *)
(***************************************************************************)
\* /(\$\s*)[lI](\d)/g -> "$11$2"
RxDollarL == Cat(<<Grp(1, Cat(<<Ch({"$"}), Star(Ch(Space))>>)), Ch({"l", "I"}), Grp(2, Ch(Digit))>>)
\* /(\d)[Oo](\d)/g -> "$10$2"
RxDigitO == Cat(<<Grp(1, Ch(Digit)), Ch({"O", "o"}), Grp(2, Ch(Digit))>>)
\* /(?<=\s)S(\d{1,3}(?:,\d{3})*\.\d{2})\b/g -> "$$1"
RxSDollar ==
  Cat(<<LookB(Space), Ch({"S"}),
        Grp(1, Cat(<<Rep(Ch(Digit), 1, 3),
                     Star(Cat(<<Ch({","}), Rep(Ch(Digit), 3, 3)>>)),
                     Ch({"."}), Rep(Ch(Digit), 2, 2)>>)),
        WB>>)
\* /[ \t]{2,}/g -> two spaces
RxSpaces == Rep(Ch({" ", TAB}), 2, Unbounded)
\* /(?<=\d) (?=\d{3}(?:[.,]|\b))/g -> ""
RxNumSpace ==
  Cat(<<LookB(Digit), Ch({" "}),
        LookA(Cat(<<Rep(Ch(Digit), 3, 3), Alt(<<Ch({".", ","}), WB>>)>>))>>)
\* /[<en><em>]/g -> "-"
RxDash == Ch({"<en>", "<em>"})
\* /[​-‍﻿]/g -> ""
RxZeroWidth == Ch({"<zw>"})
\* /[ \t]+$/gm -> ""
RxTrailing == Cat(<<Plus(Ch({" ", TAB})), EolM>>)

\* step 4 as a slip would write it: \s{2,}, which also swallows line breaks
CollapseSpacesAnyWs(t) == ReplaceAll(Rep(Ch(Space), 2, Unbounded), t, <<" ", " ">>)
CollapseSpaces(t) == ReplaceAll(RxSpaces, t, <<" ", " ">>)

normaliseOCRText(raw) ==
  LET t1 == ReplaceAll(RxDollarL, raw, <<"$1", "1", "$2">>)
      t2 == ReplaceAll(RxDigitO, t1, <<"$1", "0", "$2">>)
      t3 == ReplaceAll(RxSDollar, t2, <<"$", "$1">>)
      t4 == CollapseSpaces(t3)
      t5 == ReplaceAll(RxNumSpace, t4, <<>>)
      t6 == ReplaceAll(RxDash, t5, <<"-">>)
      t7 == ReplaceAll(RxZeroWidth, t6, <<>>)
      t8 == ReplaceAll(RxTrailing, t7, <<>>)
  IN t8

(***************************************************************************)
(* primitives.extractPhones                                                *)
(***************************************************************************)
PhoneSep == {" ", TAB, "-", "."}

\* PATTERNS.PHONE
PHONE ==
  Alt(<<Cat(<<Ch({"+"}), Rep(Ch(Digit), 1, 3), Opt(Ch(PhoneSep)),
              Rep(Cat(<<Opt(Ch({"("})), Rep(Ch(Digit), 1, 4), Opt(Ch({")"})), Ch(PhoneSep)>>),
                  1, 4),
              Rep(Ch(Digit), 2, 6)>>),
        Cat(<<Opt(Ch({"("})), Rep(Ch(Digit), 2, 4), Opt(Ch({")"})), Opt(Ch(PhoneSep)),
              Rep(Ch(Digit), 3, 4), Opt(Ch(PhoneSep)), Rep(Ch(Digit), 3, 4)>>)>>)

\* /^\d{5}-\d{4}$/
ZipPlus4 == Cat(<<Bol, Rep(Ch(Digit), 5, 5), Ch({"-"}), Rep(Ch(Digit), 4, 4), Eol>>)

\* the texts of the matches ms in s
MatchTexts(ms, s) == [k \in 1..Len(ms) |-> SubSeq(s, ms[k].st, ms[k].en - 1)]

\* a global match that goes on from lastIndex and leaves it behind the
\* first match, as RegExp.exec does
matchFromLastIndex(r, s, lastIndex) ==
  [found |-> MatchTexts(MatchAllFrom(r, s, lastIndex + 1), s),
   lastIndex |-> LET m == SearchFrom(r, s, lastIndex + 1) IN IF m.ok THEN m.en - 1 ELSE 0]

\* String.prototype.match with a pattern that has the g flag: lastIndex is
\* set to 0, every match is collected, and lastIndex is 0 again at the end
matchGlobal(r, s, lastIndex) ==
  [found |-> MatchTexts(MatchAllFrom(r, s, 1), s), lastIndex |-> 0]

\* p.replace(/\D/g, "").length
DigitCount(p) == Len(SelectSeq(p, LAMBDA ch : ch \in Digit))

MinPhoneDigits == 7

\* the filter on the ZIP+4 shape left out
PhoneKeptWithZip(p) == DigitCount(p) >= MinPhoneDigits

\* the two filters of extractPhones
PhoneKept(p) == DigitCount(p) >= MinPhoneDigits /\ ~Test(ZipPlus4, p)

RECURSIVE Unique(_)
\* Array.from(new Set(list)): the first occurrences, in order
Unique(list) ==
  IF Len(list) = 0 THEN <<>>
  ELSE LET rest == Unique(SubSeq(list, 1, Len(list) - 1))
           last == list[Len(list)]
       IN IF \E k \in 1..Len(rest) : rest[k] = last THEN rest ELSE Append(rest, last)

PhonesOf(found) ==
  Unique(SelectSeq([k \in 1..Len(found) |-> Trim(found[k])], PhoneKept))

extractPhones(text) == PhonesOf(matchGlobal(PHONE, text, 0).found)

(***************************************************************************)
(* primitives.classifyDocumentType                                         *)
(***************************************************************************)
\* the keys of scores, in insertion order
TypeTable ==
  <<"invoice", "receipt", "purchase_order", "work_order", "bill", "statement", "quote",
    "cmms", "supplier_document", "contract", "generic">>

\* the keywords check() is called with for a type
TypeKeywords(type) ==
  CASE type = "invoice" ->
         <<"invoice", "inv #", "inv no", "bill to", "amount due", "tax invoice">>
    [] type = "receipt" ->
         <<"receipt", "thank you for your purchase", "cash", "change due", "transaction">>
    [] type = "purchase_order" ->
         <<"purchase order", "p.o.", "po#", "po number", "ship to", "ordered by">>
    [] type = "work_order" ->
         <<"work order", "wo#", "technician", "labour", "asset id", "fault">>
    [] type = "bill" ->
         <<"bill", "billing period", "account no", "utility", "electricity", "gas">>
    [] type = "statement" ->
         <<"statement", "opening balance", "closing balance", "transactions">>
    [] type = "quote" -> <<"quotation", "quote", "estimate", "valid until", "quoted">>
    [] type = "cmms" ->
         <<"cmms", "maintenance", "work request", "preventive maintenance">>
    [] type = "supplier_document" ->
         <<"vendor", "supplier", "packing list", "delivery note", "delivery docket">>
    [] type = "contract" -> <<"contract", "agreement", "whereas", "parties", "signed">>
    [] OTHER -> <<>>

\* scores[type] after the checks
KeywordScore(text, type) == Hits(text, TypeKeywords(type))

TypeScores(text) == [i \in 1..Len(TypeTable) |-> KeywordScore(text, TypeTable[i])]

\* the callback of the reduce with >= in place of >
BetterOrEqual(b, a) == b >= a

\* the callback of the reduce: b replaces a when b[1] > a[1]
Better(b, a) == b > a

RECURSIVE ReduceBest(_, _, _)
\* the reduce over the entries from b on, a the entry kept so far
ReduceBest(scores, a, b) ==
  IF b > Len(scores) THEN a
  ELSE ReduceBest(scores, IF Better(scores[b], scores[a]) THEN b ELSE a, b + 1)

\* the kept entry returned whatever its score is
BestAlways(scores, best) == TypeTable[best]

\* best[1] > 0 ? best[0] : "generic"
BestOrGeneric(scores, best) == IF scores[best] > 0 THEN TypeTable[best] ELSE "generic"

ClassifyScores(scores) == BestOrGeneric(scores, ReduceBest(scores, 1, 2))

\* the scores are worked out once, then reduced
classifyDocumentType(text) ==
  CHOOSE type \in {ClassifyScores(scores) : scores \in {TypeScores(text)}} : TRUE

(***************************************************************************)
(* primitives.detectCurrency; the patterns carry the flag i and are run on *)
(* the text in lower case                                                  *)
(***************************************************************************)
CURRENCY_MAP ==
  <<[regex |-> Alt(<<L("a$"), L("aud"), Cat(<<L("australian"), S1, L("dollar")>>)>>),
     code |-> "AUD"],
    [regex |-> Alt(<<L("$"), L("usd"), L("us$"), Cat(<<L("us"), S1, L("dollar")>>)>>),
     code |-> "USD"],
    [regex |-> Alt(<<Ch({"<eur>"}), L("eur"), L("euro")>>), code |-> "EUR"],
    [regex |-> Alt(<<Ch({"<gbp>"}), L("gbp"), L("sterling")>>), code |-> "GBP"],
    [regex |-> Alt(<<Ch({"<inr>"}), L("inr"), L("rs.")>>), code |-> "INR"],
    [regex |-> Alt(<<Ch({"<yen>"}), L("jpy"), L("yen")>>), code |-> "JPY"],
    [regex |-> Alt(<<L("nzd"), L("nz$")>>), code |-> "NZD"],
    [regex |-> Alt(<<L("cad"), L("c$")>>), code |-> "CAD"],
    [regex |-> Alt(<<L("sgd"), L("s$")>>), code |-> "SGD"],
    [regex |-> Alt(<<L("aed"), L("dirham")>>), code |-> "AED"]>>

\* the entries of the map whose pattern is found in the text
CurrencyHits(lower) == {k \in 1..Len(CURRENCY_MAP) : Test(CURRENCY_MAP[k].regex, lower)}

FirstCurrency(hits) ==
  IF hits = {} THEN "USD" ELSE CURRENCY_MAP[FirstOr(hits, 0)].code

\* detectCurrency(text).code
detectCurrency(text) == FirstCurrency(CurrencyHits(LowerText(text)))

(***************************************************************************)
(* RuleBasedParser.parse                                                   *)
(***************************************************************************)
\* the record parse() returns, as far as the properties below read it;
\* parse() assigns no warnings to the metadata
ParsedRecord(norm, footerText, parts) ==
  [documentType |-> classifyDocumentType(norm),
   currency |-> detectCurrency(norm),
   purchaseOrderNumber |-> purchaseOrderNumber(norm),
   parts |-> parts,
   totals |-> extractTotals(norm, footerText, parts),
   warnings |-> <<>>]

ParsedSegments(norm, lines, seg) ==
  ParsedRecord(norm, Join(seg.footerLines, <<NL>>), extractParts(seg.bodyLines, lines))

ParsedLines(norm, lines) == ParsedSegments(norm, lines, segmentDocument(lines))

ParsedText(norm) == ParsedLines(norm, TrimmedLines(norm))

parse(text) == ParsedText(normaliseOCRText(text))

(***************************************************************************)
(* Inputs of the normaliser: texts put together from OCR fragments          *)
(***************************************************************************)
MaxNormFrags == 2

NormFrags ==
  << <<"$", "l", "5">>, <<"$", NL, "I", "5">>, <<"1", "O", "1">>, <<"O", "1">>,
     <<" ", "S", "1", ".", "0", "0">>, <<" ", " ", " ">>, <<TAB>>, <<" ">>,
     <<"1", " ", "2", "3", "4">>, <<"<en>">>, <<"<zw>">>, <<NL>>, <<"a">> >>

SeqsUpTo(S, n) == UNION {[1..k -> S] : k \in 0..n}

NormInputs ==
  {Concat([i \in 1..Len(f) |-> NormFrags[f[i]]]) :
     f \in SeqsUpTo(1..Len(NormFrags), MaxNormFrags)}

RECURSIVE Count(_, _)
Count(s, ch) ==
  IF Len(s) = 0 THEN 0 ELSE (IF s[1] = ch THEN 1 ELSE 0) + Count(Tail(s), ch)

\* the documents made of up to n blocks of lines drawn from blocks
DocsOf(blocks, n) ==
  {Join(Concat([i \in 1..Len(f) |-> blocks[f[i]]]), <<NL>>) :
     f \in SeqsUpTo(1..Len(blocks), n)}

SdkIdle == "idle"

InitNorm ==
  /\ rawText \in NormInputs
  /\ pc = "start"
  /\ normText = <<>>
  /\ response = "none"
  /\ sdk = SdkIdle

Normalise ==
  /\ pc = "start"
  /\ normText' = normaliseOCRText(rawText)
  /\ pc' = "done"
  /\ UNCHANGED <<rawText, response, sdk>>

NextNorm == Normalise

SpecNorm == InitNorm /\ [][NextNorm]_vars

(***************************************************************************)
(* parse() on documents of line items                                      *)
(***************************************************************************)
PartsBlocks ==
  << <<Str("Description  Qty  Price  Total"), Str("Widget A  2  5.00  10.00")>>,
     <<Str("Widget B  2.50  10.00")>>,
     <<Str("Amount"), Str("482.36")>>,
     <<Str("Description"), Str("Alternator")>>,
     <<Str("Total:"), Str("Widget C  3  2.00  6.00")>>,
     <<Str("Qty: 2")>>,
     <<Str("Thank you")>> >>
MaxPartsBlocks == 2

InitParts ==
  /\ rawText \in DocsOf(PartsBlocks, MaxPartsBlocks)
  /\ pc = "start" /\ normText = <<>> /\ response = "none" /\ sdk = SdkIdle

\* RuleBasedParser.parse(rawText)
Parse ==
  /\ pc = "start"
  /\ normText' = normaliseOCRText(rawText)
  /\ response' = parse(rawText)
  /\ pc' = "parsed"
  /\ UNCHANGED <<rawText, sdk>>

SpecParts == InitParts /\ [][Parse]_vars

\* the lists of the five strategies for the parsed text: 1 table, 2 vertical
\* form, 3 multi-line, 4 per-line, 5 whole document
\* the lines of a text, as a set
SeqToLines(text) == {SplitNL(text)[i] : i \in 1..Len(SplitNL(text))}

ListsOf(text) ==
  LET lines == TrimmedLines(text)
  IN StrategyLists(segmentDocument(lines).bodyLines, lines)

\* parts is the list of the first strategy, in the given order, whose list is not empty
FirstWins(order) ==
  pc = "parsed" =>
    LET ls == ListsOf(normText)
    IN /\ \A k \in 1..5 :
            (Len(ls[order[k]]) > 0 /\ \A j \in 1..(k - 1) : Len(ls[order[j]]) = 0)
              => response.parts = ls[order[k]]
       /\ (\A k \in 1..5 : Len(ls[k]) = 0) => response.parts = <<>>

\* C1 as stated: the strategies are tried in the order table, multi-line,
\* vertical form, per-line, whole document, and the first non-empty list is
\* returned
C1_StatedOrder == FirstWins(<<1, 3, 2, 4, 5>>)

\* C1 amended: the strategies are tried in the order table, vertical form,
\* multi-line, per-line, whole document, and the first non-empty list is
\* returned, never a later one
C1_CodeOrder == FirstWins(<<1, 2, 3, 4, 5>>)

\* C1: a parsed document with no table rows whose vertical-form list and
\* multi-line list are both non-empty and differ; the vertical-form list is returned
C1_Witness ==
  /\ pc = "parsed"
  /\ LET ls == ListsOf(normText)
     IN /\ Len(ls[1]) = 0 /\ Len(ls[2]) > 0 /\ Len(ls[3]) > 0 /\ ls[2] # ls[3]
        /\ response.parts = ls[2]

PositionalFallbackWarning == "positional-fallback"
\* |quantity * unitPrice - totalAmount| / max(totalAmount, 1) <= 0.05
MathHolds(part) ==
  Abs(MulE4(part.quantity, part.unitPrice) - part.totalAmount)
    <= Max(part.totalAmount, E4) \div 20

\* C2: every part with quantity > 0 and a unit price has
\* |quantity * unit_price - total_amount| / max(total_amount, 1) <= 0.05,
\* unless the record carries the positional-fallback warning
C2_LineItemMath ==
  pc = "parsed" =>
    \A k \in 1..Len(response.parts) :
      LET part == response.parts[k]
      IN (part.quantity > 0 /\ part.unitPrice # None) =>
           \/ MathHolds(part)
           \/ \E w \in 1..Len(response.warnings) :
                response.warnings[w] = PositionalFallbackWarning

\* the parts of the record come from the scan of all lines: the table, the
\* vertical form, the multi-line blocks and the body lines gave nothing
WholeDocumentFallback ==
  /\ pc = "parsed"
  /\ LET ls == ListsOf(normText)
     IN (\A k \in 1..4 : Len(ls[k]) = 0) /\ Len(ls[5]) > 0

\* a match whose first group took no part: m[1] is undefined
UnsetGroup(m) == m.ok /\ ~HasCap(m, 1)

\* parse() reads m[1].trim() or m[1].replace() of a match without a test of
\* the group: the PO number pattern on the text, the standalone amount
\* pattern on a line
DerefUnset(norm) ==
  \/ UnsetGroup(Search(poRx, LowerText(norm)))
  \/ \E line \in SeqToLines(norm) : UnsetGroup(Search(standaloneAmountRx, Trim(line)))

\* C18: parse() raises for no input string, and parse("") returns a record
\* of type generic with grand total 0 and no parts
C18_TotalOnStrings ==
  pc = "parsed" =>
    /\ ~DerefUnset(normText)
    /\ response.documentType \in {TypeTable[i] : i \in 1..Len(TypeTable)}
    /\ response.totals.grandTotal >= 0
    /\ rawText = <<>> =>
         /\ response.documentType = "generic"
         /\ response.totals.grandTotal = 0
         /\ response.parts = <<>>

\* C18: the empty text was parsed
C18_Witness == pc = "parsed" /\ rawText = <<>> /\ response.parts = <<>>

\* C12: when parse() takes a fallback branch, here the whole-document scan
\* for line items, the warnings of the returned record hold a warning for it
C12_FallbackWarned == WholeDocumentFallback => Len(response.warnings) > 0

(***************************************************************************)
(* parse() on documents with a totals block                                *)
(***************************************************************************)
TotalsPrefixes ==
  << <<>>,
     <<Str("Widget 10.00")>>,
     <<Str("Item  Total"), Str("Widget 10.00")>> >>

TotalsLines ==
  <<Str("Subtotal 50.00"), Str("Total Tax 5.00"), Str("Total 55.00"), Str("Total 5.00"),
    Str("Grand Total 60.00"), Str("Amount Due 61.00"), Str("Amount: 62.00")>>
MaxTotalsLines == 2

\* a prefix followed by up to MaxTotalsLines totals lines
TotalsDocs ==
  {Join(TotalsPrefixes[h] \o [i \in 1..Len(f) |-> TotalsLines[f[i]]], <<NL>>) :
     h \in 1..Len(TotalsPrefixes), f \in SeqsUpTo(1..Len(TotalsLines), MaxTotalsLines)}

InitTotals ==
  /\ rawText \in TotalsDocs
  /\ pc = "start" /\ normText = <<>> /\ response = "none" /\ sdk = SdkIdle

SpecTotals == InitTotals /\ [][Parse]_vars

\* a line that is a label followed by its amount and nothing else
LabelledLineRx(label) ==
  Cat(<<Bol, label, Star(Ch({" ", ":"})), Opt(Ch(CurrencySym)), Grp(1, RxDecimal), Eol>>)

\* the amounts labelled by the label on the given lines
TierAmounts(lines, label) ==
  {AmountOf(Search(LabelledLineRx(label), LowerText(lines[i])), LowerText(lines[i])) :
     i \in {j \in 1..Len(lines) : Test(LabelledLineRx(label), LowerText(lines[j]))}}

\* the amounts of the four label tiers of the parsed text, the last one read
\* from the footer lines only
TotalTiers ==
  LET lines == TrimmedLines(normText)
  IN <<TierAmounts(lines, lblGrandTotal),
       TierAmounts(lines, lblAmountDue),
       TierAmounts(lines, lblAmountColon),
       TierAmounts(segmentDocument(lines).footerLines, lblTotal)>>

\* the highest-priority tier that occurs in the text, if any
FirstTier == {k \in 1..4 : TotalTiers[k] # {} /\ \A j \in 1..(k - 1) : TotalTiers[j] = {}}

\* C3: grand_total is an amount labelled by the highest-priority tier that
\* occurs in the input (grand total, total amount due, total due; then amount
\* due, balance due; then "amount :"; then a word-boundary "total" in the
\* footer only); with no tier it is the subtotal; it is 0 only when neither a
\* tier nor a subtotal exists
C3_GrandTotalPriority ==
  pc = "parsed" =>
    LET g == response.totals.grandTotal
        sub == response.totals.subtotal
    IN /\ \A k \in FirstTier : g \in TotalTiers[k]
       /\ (FirstTier = {} /\ sub # None) => g = sub
       /\ (FirstTier = {} /\ sub = None) => g = 0
       /\ g = 0 => (FirstTier = {} /\ sub = None)

(***************************************************************************)
(* parse() on documents with purchase-order labels                         *)
(***************************************************************************)
PoBlocks ==
  << <<Str("PO Number: ABC-42")>>,
     <<Str("PO#: PO-2024-007")>>,
     <<Str("Purchase Order Number: ABC-42")>>,
     <<Str("P.O. #4421")>>,
     <<Str("PO:")>>,
     <<Str("Number")>>,
     <<Str("Widget 10.00")>> >>
MaxPoBlocks == 2

InitPO ==
  /\ rawText \in DocsOf(PoBlocks, MaxPoBlocks)
  /\ pc = "start" /\ normText = <<>> /\ response = "none" /\ sdk = SdkIdle

SpecPO == InitPO /\ [][Parse]_vars

\* a line of the form "PO Number: <token>"
PoNumberLineRx == Cat(<<Bol, L("po number: "), Grp(1, RxToken), Eol>>)

\* the tokens of the lines "PO Number: <token>" of the text
PoNumberTokens(text) ==
  LET lines == TrimmedLines(text)
  IN {Cap(Search(PoNumberLineRx, LowerText(lines[i])), lines[i], 1) :
        i \in {j \in 1..Len(lines) : Test(PoNumberLineRx, LowerText(lines[j]))}}

\* C6: for a text with a line "PO Number: <token>", purchase_order_number is
\* <token>; the label word "Number" is never returned as the PO number
C6_PoNumberLabel ==
  pc = "parsed" =>
    /\ \A token \in PoNumberTokens(rawText) : response.purchaseOrderNumber = token
    /\ response.purchaseOrderNumber # Str("Number")

(***************************************************************************)
(* The AI providers' merge of their output into the partial record.  JSON   *)
(* values carry their kind: a string, null, undefined (a key that is not    *)
(* there), an array, an object.                                             *)
(***************************************************************************)
JStr(text) == [t |-> "str", v |-> text]
JArr(items) == [t |-> "arr", v |-> items]
JObj(fields) == [t |-> "obj", v |-> fields]
JNull == [t |-> "null"]
JUndef == [t |-> "undef"]

TopKeys == {"transaction", "parts", "rawText"}
TransactionKeys == {"invoiceNumber", "purchaseOrderNumber"}

\* Object.keys(obj) among the given keys
KeysOf(fields, keys) == {k \in keys : fields[k] # JUndef}

\* v === null || v === undefined || v === ""
IsBlank(v) == v = JNull \/ v = JUndef \/ v = JStr("")

\* OpenAIProvider.mergeObjects
mergeObjects(target, src) ==
  JObj([k \in TransactionKeys |->
          IF k \in KeysOf(src.v, TransactionKeys) /\ IsBlank(target.v[k])
          THEN src.v[k] ELSE target.v[k]])

\* OpenAIProvider.deepMerge, the body of its loop for one key
mergeKey(tgtVal, srcVal) ==
  IF srcVal = JNull \/ srcVal = JUndef THEN tgtVal
  ELSE IF srcVal.t = "obj" /\ tgtVal.t = "obj" THEN mergeObjects(tgtVal, srcVal)
  ELSE IF srcVal.t = "arr" /\ tgtVal.t = "arr"
  THEN (IF Len(srcVal.v) > Len(tgtVal.v) THEN srcVal ELSE tgtVal)
  ELSE IF IsBlank(tgtVal) THEN srcVal
  ELSE tgtVal

\* OpenAIProvider.deepMerge
deepMerge(target, src) == [key \in TopKeys |-> mergeKey(target[key], src[key])]

\* HuggingFaceProvider.shallowMerge
shallowMerge(target, src) ==
  [k \in TopKeys |->
     IF src[k] # JNull /\ src[k] # JUndef /\ IsBlank(target[k]) THEN src[k] ELSE target[k]]

\* a ?? b on JSON values
JOtherwise(a, b) == IF a # JNull /\ a # JUndef THEN a ELSE b

\* HuggingFaceProvider.mapInferenceToResponse, the keys of the model: the
\* transaction with the numbers the runner's fields give
mapInferenceToResponse(inference, partial) ==
  [transaction |->
     JObj([invoiceNumber |->
             JOtherwise(inference.invoice_number, partial.transaction.v.invoiceNumber),
           purchaseOrderNumber |->
             JOtherwise(inference.po_number, partial.transaction.v.purchaseOrderNumber)]),
   parts |-> JUndef,
   rawText |-> JUndef]

\* OpenAIProvider.enhance, once the reply is parsed
enhanceOpenAI(request, parsed) ==
  [response |-> deepMerge(request.partialResponse, parsed),
   confidence |-> Min(request.ruleBasedConfidence + 20, 98),
   provider |-> "openai"]

\* HuggingFaceProvider.enhance, once the runner has answered
enhanceHuggingFace(request, inference) ==
  [response |-> shallowMerge(request.partialResponse,
                             mapInferenceToResponse(inference, request.partialResponse)),
   confidence |-> Min(Max(IF inference.confidence # None THEN inference.confidence
                          ELSE request.ruleBasedConfidence + 12,
                          request.ruleBasedConfidence), 97),
   provider |-> "huggingface"]

\* the partial records: the parser gives a transaction object and a parts list
Partials ==
  {[transaction |-> JObj([invoiceNumber |-> i, purchaseOrderNumber |-> po]),
    parts |-> JArr(ps), rawText |-> JUndef] :
     i \in {JUndef, JStr(""), JStr("INV-1")}, po \in {JUndef, JStr("PO-1")},
     ps \in {<<>>, <<"bolt">>}}

MaxAiParts == 2
AiPartNames == <<"nut", "washer", "screw">>

\* the records an OpenAI reply may parse to
OpenAIReplies ==
  {[transaction |-> tx, parts |-> ps, rawText |-> raw] :
     tx \in {JUndef, JNull}
            \cup {JObj([invoiceNumber |-> i, purchaseOrderNumber |-> po]) :
                    i \in {JUndef, JStr("AI-1")}, po \in {JUndef, JNull, JStr("AI-2")}},
     ps \in {JUndef} \cup {JArr(SubSeq(AiPartNames, 1, n)) : n \in 0..MaxAiParts},
     raw \in {JUndef, JStr("ocr")}}

\* what the offline runner may give back
Inferences ==
  [invoice_number : {JUndef, JStr("H-1")}, po_number : {JUndef, JStr("H-2")},
   confidence : {None, 30}]

InitMerge ==
  /\ rawText = <<>> /\ normText = <<>> /\ response = "none"
  /\ pc = "start"
  /\ sdk \in [provider : {"openai"},
              request : [partialResponse : Partials, ruleBasedConfidence : {40, 90}],
              reply : OpenAIReplies]
         \cup [provider : {"huggingface"},
               request : [partialResponse : Partials, ruleBasedConfidence : {40, 90}],
               reply : Inferences]

EnhanceOpenAI ==
  /\ pc = "start" /\ sdk.provider = "openai"
  /\ response' = enhanceOpenAI(sdk.request, sdk.reply)
  /\ pc' = "enhanced"
  /\ UNCHANGED <<rawText, normText, sdk>>

EnhanceHuggingFace ==
  /\ pc = "start" /\ sdk.provider = "huggingface"
  /\ response' = enhanceHuggingFace(sdk.request, sdk.reply)
  /\ pc' = "enhanced"
  /\ UNCHANGED <<rawText, normText, sdk>>

NextMerge == EnhanceOpenAI \/ EnhanceHuggingFace

SpecMerge == InitMerge /\ [][NextMerge]_vars

\* a value that is there: not null, not missing, not "" and not an empty list
IsFilled(v) == ~IsBlank(v) /\ v # JArr(<<>>)

\* the merged value agrees with the partial one wherever the partial one is
\* filled, field by field inside an object
Agrees(partialVal, mergedVal) ==
  IF partialVal.t = "obj"
  THEN /\ mergedVal.t = "obj"
       /\ \A k \in TransactionKeys :
            IsFilled(partialVal.v[k]) => mergedVal.v[k] = partialVal.v[k]
  ELSE IsFilled(partialVal) => mergedVal = partialVal

\* C7: the record a provider's enhance() returns agrees with the partial
\* record on every field, nested field and list that was filled in the partial
\* record; the AI output only fills what was empty or null
C7_MergeKeepsFilled ==
  pc = "enhanced" =>
    \A key \in TopKeys :
      Agrees(sdk.request.partialResponse[key], response.response[key])

\* C30: when the offline runner returns an invoice number or a PO number
\* that is empty in the partial record, the record that
\* HuggingFaceProvider.enhance returns carries the runner's value in that field
C30_RunnerValueCarried ==
  (pc = "enhanced" /\ sdk.provider = "huggingface") =>
    /\ (/\ sdk.reply.invoice_number # JUndef
        /\ IsBlank(sdk.request.partialResponse.transaction.v.invoiceNumber))
         => response.response.transaction.v.invoiceNumber = sdk.reply.invoice_number
    /\ (/\ sdk.reply.po_number # JUndef
        /\ IsBlank(sdk.request.partialResponse.transaction.v.purchaseOrderNumber))
         => response.response.transaction.v.purchaseOrderNumber = sdk.reply.po_number

(***************************************************************************)
(* DataLiftSDK: configure() and extract() with the OCR engine, the parser,  *)
(* the confidence gate and the AI engine.  Confidences and thresholds are   *)
(* whole percents.  A step runs from one await to the next: configure() may *)
(* be called while extract() waits for an OCR or an AI provider.            *)
(***************************************************************************)
\* _config.defaultAIThreshold, in percent
defaultAIThreshold == 65

\* the two built-in OCR providers, in DEFAULT_PROVIDER_ORDER
DEFAULT_PROVIDER_ORDER == <<"native-mlkit", "tesseract">>

\* undefined for a name; None stands for an undefined number, Absent for an
\* undefined text, NoRecord for an undefined object, NullResult for null
Undefined == "<none>"
NoRecord == [undefined |-> TRUE]
NullResult == [null |-> TRUE]
\* a flag of the options: "true", "false" or Undefined
IsTrue(flag) == flag = "true"

\* the names custom providers are registered under
CustomOcr == "custom"
AiNames == {"openai", "huggingface"}

\* the values the callers hand over
OcrPreferences == {Undefined, "tesseract", CustomOcr}
AiPreferences == {Undefined, "openai"}
OptionThresholds == {None, 50}
ConfigThresholds == {None, 80}
\* the overall score of the confidence engine for the parsed record
Scores == {40, 50, 65, 80}
OcrTexts == {Str("PO#: A1"), Str("Total 5.00")}
\* the confidences an AI provider reports
AiConfidences == {70}
MaxConfigures == 1

\* what a provider does when it is asked
OcrOutcomes == {"unavailable", "throws", "ok"}
AiOutcomes == {"unavailable", "throws", "ok"}

SeqToSet(q) == {q[i] : i \in 1..Len(q)}

RECURSIVE Filter(_, _)
\* order.filter(k => k !== drop)
Filter(order, drop) ==
  IF Len(order) = 0 THEN <<>>
  ELSE (IF order[1] # drop THEN <<order[1]>> ELSE <<>>) \o Filter(Tail(order), drop)

\* the order with the preferred provider left in the default list
buildProviderOrderRepeating(preferredProvider) ==
  IF preferredProvider # Undefined
  THEN <<preferredProvider>> \o DEFAULT_PROVIDER_ORDER
  ELSE DEFAULT_PROVIDER_ORDER

\* OCREngine.buildProviderOrder
buildProviderOrder(preferredProvider) ==
  IF preferredProvider # Undefined
  THEN <<preferredProvider>> \o Filter(DEFAULT_PROVIDER_ORDER, preferredProvider)
  ELSE DEFAULT_PROVIDER_ORDER

\* the image sources of the model: none, a base64 string, a blob
ImageInputs == {Undefined, "base64", "blob"}

\* validateOptions that accepts every options object
validateOptionsLax(options) == TRUE

\* validateOptions(options).valid, as far as the options of the model go:
\* an image source is there and the threshold, if given, lies in [0, 1]
validateOptions(options) ==
  /\ options.imageInput # Undefined
  /\ options.aiConfidenceThreshold # None =>
       (options.aiConfidenceThreshold >= 0 /\ options.aiConfidenceThreshold <= 100)

\* Map.set(name, provider) on a registry kept in insertion order
RegistrySet(registry, name) ==
  IF name \in SeqToSet(registry) THEN registry ELSE Append(registry, name)

\* the state of the module before any call: the built-in OCR providers are
\* registered, no AI provider is
SdkInit ==
  [config |-> [defaultAIThreshold |-> defaultAIThreshold, defaultExtractRawText |-> "false"],
   ocrRegistry |-> DEFAULT_PROVIDER_ORDER,
   aiRegistry |-> <<>>,
   configures |-> 0,
   lastThresholdSet |-> None,
   options |-> NoRecord,
   order |-> <<>>,
   ocrCalls |-> <<>>,
   ocrResult |-> NoRecord,
   overall |-> None,
   gate |-> NoRecord,
   ruleBased |-> NoRecord,
   aiProviderKey |-> Undefined,
   aiCalls |-> <<>>,
   aiResult |-> NoRecord,
   errorCode |-> Undefined,
   stages |-> <<>>]

InitSDK ==
  /\ rawText = <<>> /\ normText = <<>> /\ response = "none"
  /\ pc = "idle"
  /\ sdk = SdkInit

\* DataLiftSDK.configure(options)
configure(options) ==
  /\ pc \in {"idle", "ocr", "ai"}
  /\ sdk.configures < MaxConfigures
  /\ sdk' = [sdk EXCEPT
       !.config.defaultAIThreshold =
          IF options.aiConfidenceThreshold # None THEN options.aiConfidenceThreshold ELSE @,
       !.config.defaultExtractRawText =
          IF options.extractRawText # Undefined THEN options.extractRawText ELSE @,
       !.ocrRegistry = IF options.ocrProvider # Undefined THEN RegistrySet(@, options.ocrProvider) ELSE @,
       !.aiRegistry = IF options.aiProvider # Undefined THEN RegistrySet(@, options.aiProvider) ELSE @,
       !.lastThresholdSet =
          IF options.aiConfidenceThreshold # None THEN options.aiConfidenceThreshold ELSE @,
       !.configures = @ + 1]
  /\ UNCHANGED <<rawText, pc, normText, response>>

\* the configure() calls of the model: each sets one thing, one sets all
ConfigureCalls ==
  {o \in [aiConfidenceThreshold : ConfigThresholds, extractRawText : {Undefined, "true"},
          ocrProvider : {Undefined, CustomOcr}, aiProvider : {Undefined} \cup AiNames] :
     \/ Cardinality({f \in {"t", "r", "o", "a"} :
                       \/ f = "t" /\ o.aiConfidenceThreshold # None
                       \/ f = "r" /\ o.extractRawText # Undefined
                       \/ f = "o" /\ o.ocrProvider # Undefined
                       \/ f = "a" /\ o.aiProvider # Undefined}) = 1
     \/ /\ o.aiConfidenceThreshold # None /\ o.extractRawText # Undefined
        /\ o.ocrProvider # Undefined /\ o.aiProvider = "openai"}

Configure == \E options \in ConfigureCalls : configure(options)

\* resolveImageData(options) returns image data; it throws for a blob
resolveImageDataThrows(options) == options.imageInput = "blob"

RECURSIVE SkipUnregistered(_, _, _)
\* OCREngine.run: the loop passes over the keys from the next one on that the
\* registry does not hold
SkipUnregistered(order, calls, registry) ==
  IF Len(calls) < Len(order) /\ order[Len(calls) + 1] \notin SeqToSet(registry)
  THEN SkipUnregistered(order, Append(calls, [key |-> order[Len(calls) + 1],
                                              outcome |-> "unregistered"]), registry)
  ELSE calls

\* OCREngine.run from the top of its loop to the next await, or to its throw when the
\* order is used up; extract() turns the throw into OCR_FAILED
RunOcrLoop(base, order, calls) ==
  LET passed == SkipUnregistered(order, calls, base.ocrRegistry)
  IN IF Len(passed) = Len(order)
     THEN /\ pc' = "rejected"
          /\ sdk' = [base EXCEPT !.order = order, !.ocrCalls = passed,
                                 !.errorCode = "OCR_FAILED"]
     ELSE /\ pc' = "ocr"
          /\ sdk' = [base EXCEPT !.order = order, !.ocrCalls = passed]

\* DataLiftSDK.extract(options), up to the first await of the OCR engine; the
\* stages the call has entered are kept in sdk.stages
extract(options) ==
  /\ pc = "idle"
  /\ IF ~validateOptions(options) \/ resolveImageDataThrows(options)
     THEN /\ pc' = "rejected"
          /\ sdk' = [sdk EXCEPT !.options = options, !.errorCode = "INVALID_INPUT",
                                !.stages = <<"validate">>]
     ELSE RunOcrLoop([sdk EXCEPT !.options = options, !.stages = <<"validate", "ocr">>],
                     buildProviderOrder(options.ocrProvider), <<>>)
  /\ UNCHANGED <<rawText, normText, response>>

\* the extract() calls of the model: the calls with a usable image and an OCR
\* preference or AI preferences, and the calls with a missing or unusable image
\* or a threshold out of range
ExtractCalls ==
  {o \in [imageInput : ImageInputs, ocrProvider : OcrPreferences, aiProvider : AiPreferences,
          aiConfidenceThreshold : OptionThresholds \cup {101},
          extractRawText : {Undefined, "true"}] :
     /\ (o.imageInput # "base64" \/ o.aiConfidenceThreshold = 101) =>
          (o.ocrProvider = Undefined /\ o.aiProvider = Undefined /\ o.extractRawText = Undefined)
     /\ o.imageInput # "base64" => o.aiConfidenceThreshold = None
     /\ o.extractRawText = "true" => (o.ocrProvider = Undefined /\ o.aiProvider = Undefined)
     /\ o.ocrProvider # Undefined => (o.aiProvider = Undefined /\ o.aiConfidenceThreshold = None)}

Extract == \E options \in ExtractCalls : extract(options)

\* OCREngine.run: the provider the loop waits for answers; it is unavailable, it
\* throws (from isAvailable or from extractText), or extractText returns a
\* result, whose text the engine does not look at
OcrProviderAnswers ==
  /\ pc = "ocr"
  /\ \E outcome \in OcrOutcomes, text \in OcrTexts \cup {Absent} :
       LET key == sdk.order[Len(sdk.ocrCalls) + 1]
           calls == Append(sdk.ocrCalls, [key |-> key, outcome |-> outcome])
       IN IF outcome = "ok"
          THEN /\ pc' = "parse"
               /\ rawText' = text
               /\ sdk' = [sdk EXCEPT !.ocrCalls = calls,
                                     !.ocrResult = [text |-> text, confidence |-> 90,
                                                    provider |-> key]]
          ELSE /\ RunOcrLoop(sdk, sdk.order, calls)
               /\ rawText' = rawText
  /\ UNCHANGED <<normText, response>>

\* a ?? b for names and flags, and for numbers
Otherwise(a, b) == IF a # Undefined THEN a ELSE b
OtherwiseNum(a, b) == IF a # None THEN a ELSE b

\* sanitiseResponse(response): the metadata defaults
sanitiseResponse(resp) ==
  [resp EXCEPT !.metadata.confidenceScore = OtherwiseNum(@, 0)]

\* extract(), steps 7 to 9: the raw text is attached if asked for, the record is
\* sanitised and returned
Resolve(base, resp) ==
  /\ response' = sanitiseResponse(
       [resp EXCEPT !.rawText =
          IF IsTrue(Otherwise(base.options.extractRawText, base.config.defaultExtractRawText))
          THEN base.ocrResult.text ELSE @])
  /\ sdk' = base
  /\ pc' = "resolved"

\* the gate with <= in place of <
AiGateInclusive(overall, aiThreshold) == overall <= aiThreshold

\* the gate of extract(): breakdown.overall < aiThreshold
AiGate(overall, aiThreshold) == overall < aiThreshold

\* AIEngine.enhance: preferredProvider ?? findFirstAvailable()
providerKey(preferredProvider, registry) ==
  IF preferredProvider # Undefined THEN preferredProvider
  ELSE IF Len(registry) > 0 THEN registry[1] ELSE Undefined

\* extract(), steps 4 to 6 up to the await of the AI provider: the text is
\* parsed, the record is stamped and scored, and below the threshold the AI
\* engine picks its provider
ParseAndScore(parsed, overall) ==
  LET scored == [parsed |-> parsed,
                 rawText |-> Absent,
                 metadata |-> [ocrProvider |-> sdk.ocrResult.provider,
                               confidenceScore |-> overall,
                               aiProviderUsed |-> Undefined,
                               warnings |-> parsed.warnings]]
      aiThreshold == OtherwiseNum(sdk.options.aiConfidenceThreshold,
                               sdk.config.defaultAIThreshold)
      key == providerKey(sdk.options.aiProvider, sdk.aiRegistry)
      gated == [sdk EXCEPT !.overall = overall, !.ruleBased = scored,
                           !.stages = @ \o (IF AiGate(overall, aiThreshold)
                                            THEN <<"parse", "score", "ai">>
                                            ELSE <<"parse", "score">>),
                           !.gate = [lastThresholdSet |-> sdk.lastThresholdSet,
                                     triggered |-> AiGate(overall, aiThreshold)]]
  IN IF ~AiGate(overall, aiThreshold) THEN Resolve(gated, scored)
     ELSE IF key = Undefined \/ key \notin SeqToSet(sdk.aiRegistry)
     THEN Resolve([gated EXCEPT !.aiProviderKey = key, !.aiResult = NullResult], scored)
     ELSE /\ response' = scored
          /\ sdk' = [gated EXCEPT !.aiProviderKey = key]
          /\ pc' = "ai"

\* parser.parse(text) throws when the text is not a string: normaliseOCRText
\* calls raw.replace
parseThrows(text) == text = Absent

\* extract(), step 4 on: a throw of the parser rejects with PARSE_FAILED
ParseScore ==
  /\ pc = "parse"
  /\ IF parseThrows(rawText)
     THEN /\ pc' = "rejected"
          /\ sdk' = [sdk EXCEPT !.stages = Append(@, "parse"),
                                !.errorCode = "PARSE_FAILED"]
          /\ response' = response
     ELSE \E overall \in Scores : ParseAndScore(parse(rawText), overall)
  /\ UNCHANGED <<rawText, normText>>

\* the records an AI provider may hand back for a partial record: the record
\* itself, the record with an empty PO number filled in, or the record with a
\* rawText of the provider's own (deepMerge takes over a rawText key of the reply)
AiResponses(partial) ==
  {partial,
   [partial EXCEPT !.parsed.purchaseOrderNumber = IF @ = Absent THEN Str("AI-7") ELSE @],
   [partial EXCEPT !.rawText = IF @ = Absent THEN Str("AI text") ELSE @]}

\* enhance without the availability check and the catch
enhanceRegardless(outcome, result) == result

\* AIEngine.enhance after its await: the result of the provider, null when the
\* provider is unavailable or throws
enhance(outcome, result) == IF outcome = "ok" THEN result ELSE NullResult

\* extract(), step 6 after the await: a result replaces the record and sets the
\* confidence and the provider used
ApplyAi(base, aiResult) ==
  IF aiResult # NullResult
  THEN Resolve([base EXCEPT !.aiResult = aiResult],
               [aiResult.response EXCEPT !.metadata.confidenceScore = aiResult.confidence,
                                         !.metadata.aiProviderUsed = aiResult.provider])
  ELSE Resolve([base EXCEPT !.aiResult = NullResult], response)

\* the AI provider answers: it is unavailable, it throws, or it returns a result
AiProviderAnswers ==
  /\ pc = "ai"
  /\ \E outcome \in AiOutcomes, merged \in AiResponses(response), c \in AiConfidences :
       ApplyAi([sdk EXCEPT !.aiCalls = Append(@, [key |-> sdk.aiProviderKey,
                                                   outcome |-> outcome])],
               enhance(outcome, [response |-> merged, confidence |-> c,
                                 provider |-> sdk.aiProviderKey]))
  /\ UNCHANGED <<rawText, normText>>

NextSDK == Configure \/ Extract \/ OcrProviderAnswers \/ ParseScore \/ AiProviderAnswers

SpecSDK == InitSDK /\ [][NextSDK]_vars

\* the call went through the confidence gate and the gate asked for AI
AiTriggered == sdk.gate # NoRecord /\ sdk.gate.triggered

\* the AI provider picked for the call failed: it was not registered, or its
\* one call ended unavailable or with a throw
AiFailed ==
  /\ AiTriggered
  /\ pc = "resolved"
  /\ \/ sdk.aiCalls = <<>>
     \/ sdk.aiCalls[Len(sdk.aiCalls)].outcome \in {"unavailable", "throws"}

\* the record extract() resolves with, less the raw text attached on request
ResolvedRecord == [response EXCEPT !.rawText = Absent]

\* C8: when the selected AI provider is not registered, is unavailable or
\* throws, AIEngine.enhance returns null and extract() resolves with the
\* rule-based record unchanged: same fields, confidence_score the rule-based
\* overall score, ai_provider_used absent; an AI failure never rejects the call
C8_AiFailureNonFatal ==
  /\ AiFailed =>
       /\ sdk.aiResult = NullResult
       /\ ResolvedRecord = sdk.ruleBased
       /\ response.metadata.confidenceScore = sdk.overall
       /\ response.metadata.aiProviderUsed = Undefined
       /\ sdk.errorCode = Undefined
  /\ pc = "rejected" => sdk.gate = NoRecord

\* C8: a call whose AI provider threw has resolved
C8_Witness ==
  /\ AiFailed
  /\ sdk.aiCalls # <<>>
  /\ sdk.aiCalls[1].outcome = "throws"

\* the threshold in force at the gate: the option of the call, else the value
\* last set through configure(), else the built-in default
EffectiveThreshold ==
  IF sdk.options.aiConfidenceThreshold # None THEN sdk.options.aiConfidenceThreshold
  ELSE IF sdk.gate.lastThresholdSet # None THEN sdk.gate.lastThresholdSet
  ELSE defaultAIThreshold

\* the AI provider calls of the extract() in flight
AiInvocations == Len(sdk.aiCalls)

StatedOrder(preferred) ==
  (IF preferred # Undefined THEN <<preferred>> ELSE <<>>)
    \o SelectSeq(<<"native-mlkit", "tesseract">>, LAMBDA k : k # preferred)

C24_CustomFirst ==
  (/\ sdk.options # NoRecord
   /\ sdk.options.ocrProvider = Undefined
   /\ CustomOcr \in SeqToSet(sdk.ocrRegistry)
   /\ sdk.ocrCalls # <<>>)
    => sdk.ocrCalls[1].key = CustomOcr

\* the stages of extract() in the order of its code
StageOrder == <<"validate", "ocr", "parse", "score", "ai">>

IsPrefix(s, t) == Len(s) <= Len(t) /\ \A i \in 1..Len(s) : s[i] = t[i]

\* the options of the call lack an image or carry a threshold outside [0, 1]
InvalidOptions ==
  /\ sdk.options # NoRecord
  /\ \/ sdk.options.imageInput = Undefined
     \/ /\ sdk.options.aiConfidenceThreshold # None
        /\ sdk.options.aiConfidenceThreshold \notin 0..100

\* no stage after the OCR stage has left a trace
NothingAfterOcr ==
  /\ response = "none"
  /\ sdk.ruleBased = NoRecord
  /\ sdk.overall = None
  /\ sdk.gate = NoRecord
  /\ sdk.aiCalls = <<>>

\* C11: extract() runs its stages in the order validate, OCR, parse, score,
\* AI, and a failing stage ends the call with its own error code before any
\* later stage runs: invalid options reject with INVALID_INPUT before any OCR
\* provider is asked, the failure of every OCR provider rejects with
\* OCR_FAILED before the parser runs, and a throw of the parser rejects with
\* PARSE_FAILED before scoring and AI
C11_StageOrder ==
  /\ IsPrefix(sdk.stages, StageOrder)
  /\ pc = "rejected" <=> sdk.errorCode # Undefined
  /\ InvalidOptions => sdk.errorCode = "INVALID_INPUT"
  /\ sdk.errorCode = "INVALID_INPUT" =>
       /\ sdk.stages = <<"validate">>
       /\ sdk.ocrCalls = <<>>
       /\ sdk.ocrResult = NoRecord
       /\ NothingAfterOcr
  /\ (pc = "rejected" /\ sdk.stages = <<"validate", "ocr">>) <=> sdk.errorCode = "OCR_FAILED"
  /\ sdk.errorCode = "OCR_FAILED" =>
       /\ \A i \in 1..Len(sdk.ocrCalls) : sdk.ocrCalls[i].outcome # "ok"
       /\ sdk.ocrResult = NoRecord
       /\ NothingAfterOcr
  /\ (sdk.ocrResult # NoRecord /\ parseThrows(sdk.ocrResult.text) /\ pc # "parse") <=>
       sdk.errorCode = "PARSE_FAILED"
  /\ sdk.errorCode = "PARSE_FAILED" =>
       /\ sdk.stages = <<"validate", "ocr", "parse">>
       /\ NothingAfterOcr
  /\ sdk.overall # None => (sdk.ruleBased # NoRecord /\ Len(sdk.stages) >= 4)
  /\ sdk.aiCalls # <<>> => (sdk.overall # None /\ Len(sdk.stages) = 5)

\* C11: the first OCR provider failed, the second returned a result without
\* a text, and the call was rejected with PARSE_FAILED
C11_Witness ==
  /\ pc = "rejected"
  /\ sdk.errorCode = "PARSE_FAILED"
  /\ Len(sdk.ocrCalls) = 2
  /\ sdk.ocrCalls[1].outcome = "throws"

\* raw-text extraction is enabled for the call: the option of the call, else
\* the default last set through configure(), at first false
RawTextEnabled ==
  IsTrue(Otherwise(sdk.options.extractRawText, sdk.config.defaultExtractRawText))

\* C21: the record extract() returns holds rawText, equal to the OCR text, if
\* and only if raw-text extraction is enabled for the call, whether or not
\* AI enhancement was applied
C21_RawTextIffEnabled ==
  pc = "resolved" =>
    /\ response.rawText # Absent <=> RawTextEnabled
    /\ RawTextEnabled => response.rawText = sdk.ocrResult.text

\* C4: normalising a normalised text changes nothing
C4_Idempotent == pc = "done" => normaliseOCRText(normText) = normText

\* C5: the normalised text has exactly as many newlines as the raw text
C5_NewlinesPreserved == pc = "done" => Count(normText, NL) = Count(rawText, NL)

\* a text with a line break next to blanks and to a '$' was normalised and changed
C5_Witness ==
  /\ pc = "done"
  /\ Count(rawText, NL) >= 1
  /\ normText # rawText

(***************************************************************************)
(* ConfidenceEngine: scores are held in units of 1/1000000 while they are  *)
(* computed and in units of 1/10000 once toFixed(4) has rounded them       *)
(***************************************************************************)
E6 == 1000000

\* the weights, in hundredths
WEIGHT_OCR == 15
WEIGHT_FIELDS == 35
WEIGHT_NUMERIC == 20
WEIGHT_DOC_TYPE == 15
WEIGHT_KEYWORD == 15

DOCUMENT_KEYWORDS(type) ==
  CASE type = Str("invoice") ->
         <<"invoice", "inv", "bill to", "due date", "amount due", "po number">>
    [] type = Str("receipt") ->
         <<"receipt", "thank you", "cash", "change", "subtotal", "purchase">>
    [] type = Str("purchase_order") ->
         <<"purchase order", "p.o.", "po#", "ship to", "ordered by">>
    [] type = Str("work_order") -> <<"work order", "wo#", "technician", "labour", "asset">>
    [] type = Str("bill") ->
         <<"bill", "account number", "billing period", "pay by", "statement">>
    [] type = Str("quote") -> <<"quotation", "quote", "estimate", "valid until", "proposal">>
    [] type = Str("cmms") ->
         <<"cmms", "maintenance", "work request", "asset id", "breakdown">>
    [] OTHER -> <<>>

\* a list that is not there
NoParts == <<NoRecord>>

\* a string that is there and not empty
Truthy(text) == text # Absent /\ text # <<>>

\* a ?? b for amounts
Or0(a) == IF a = None THEN 0 ELSE a

\* text.split(/\s+/).filter(Boolean).length
WordCount(text) == Len(SelectSeq(SplitRx(S1, text), LAMBDA w : w # <<>>))

\* the full word count of scoreOCR
FullDensity == 50

\* scoreOCR without the cap of the density at 1
scoreOCRUncapped(text, providerConf) ==
  providerConf * 60 + (((WordCount(text) * E6) \div FullDensity) * 4) \div 10

scoreOCR(text, providerConf) ==
  providerConf * 60 + (Min((WordCount(text) * E6) \div FullDensity, E6) * 4) \div 10

\* filled and total of scoreFieldPopulation, both doubled
FilledTwice(r) ==
  2 * Cardinality({f \in {"supplierName", "invoiceNumber", "invoiceDate", "currency"} :
                     Truthy(r[f])})
  + (IF r.totals # NoRecord /\ r.totals.grandTotal # None /\ r.totals.grandTotal > 0
     THEN 2 ELSE 0)
  + (IF r.parts # NoParts /\ Len(r.parts) > 0 THEN 2 ELSE 0)
  + Cardinality({f \in {"email", "phone", "buyerName"} : Truthy(r[f])})

TotalTwice == 15

scoreFieldPopulation(r) == Min((FilledTwice(r) * E6) \div TotalTwice, E6)

RECURSIVE PartSum(_)
PartSum(parts) ==
  IF Len(parts) = 0 THEN 0 ELSE Or0(parts[1].totalAmount) + PartSum(Tail(parts))

\* the last steps of scoreNumericConsistency: the grand total is read, then
\* delta is compared; an undefined grand total makes delta NaN
DeltaScore(reconstructed, grandTotal) ==
  IF grandTotal = 0 THEN E6 \div 2
  ELSE IF grandTotal = None THEN (3 * E6) \div 10
  ELSE IF grandTotal < 0 THEN E6
  ELSE LET diff == Abs(reconstructed - grandTotal)
       IN IF 100 * diff < grandTotal THEN E6
          ELSE IF 100 * diff < 5 * grandTotal THEN (8 * E6) \div 10
          ELSE IF 100 * diff < 15 * grandTotal THEN (6 * E6) \div 10
          ELSE (3 * E6) \div 10

NumericOf(totals, subtotal) ==
  IF subtotal = 0 /\ totals.grandTotal = 0 THEN (4 * E6) \div 10
  ELSE DeltaScore(subtotal + Or0(totals.totalTax) + Or0(totals.shippingCost) + Or0(totals.tip)
                    + Or0(totals.serviceCharge) - Or0(totals.discount),
                  totals.grandTotal)

scoreNumericConsistency(r) ==
  IF r.totals = NoRecord \/ r.parts = NoParts \/ Len(r.parts) = 0 THEN E6 \div 2
  ELSE NumericOf(r.totals,
                 IF r.totals.subtotal # None THEN r.totals.subtotal ELSE PartSum(r.parts))

DocTypeOf(claimed, detected) ==
  IF claimed = detected THEN E6
  ELSE IF Includes(claimed, detected) \/ Includes(detected, claimed) THEN (7 * E6) \div 10
  ELSE (3 * E6) \div 10

scoreDocumentType(r, documentType) ==
  DocTypeOf(LowerText(IF r.documentType # Absent THEN r.documentType ELSE documentType),
            LowerText(documentType))

KeywordOf(lower, keywords) ==
  IF Len(keywords) = 0 THEN E6 \div 2
  ELSE (Cardinality({k \in 1..Len(keywords) : Includes(lower, Str(keywords[k]))}) * E6)
         \div Len(keywords)

scoreKeywordMatch(text, documentType) ==
  KeywordOf(LowerText(text), DOCUMENT_KEYWORDS(LowerText(documentType)))

\* parseFloat(x.toFixed(4)), in units of 1/10000
ToFixed4(x) == (x + 50) \div 100

Breakdown(ocr, fields, numeric, docType, keyword) ==
  [overall |-> ToFixed4((ocr * WEIGHT_OCR + fields * WEIGHT_FIELDS + numeric * WEIGHT_NUMERIC
                           + docType * WEIGHT_DOC_TYPE + keyword * WEIGHT_KEYWORD) \div 100),
   ocr |-> ToFixed4(ocr),
   fields |-> ToFixed4(fields),
   numeric |-> ToFixed4(numeric),
   docType |-> ToFixed4(docType),
   keyword |-> ToFixed4(keyword)]

score(r, text, ocrConf, documentType) ==
  Breakdown(scoreOCR(text, ocrConf), scoreFieldPopulation(r), scoreNumericConsistency(r),
            scoreDocumentType(r, documentType), scoreKeywordMatch(text, documentType))

(***************************************************************************)
(* ConfidenceEngine.score on records, texts and OCR confidences            *)
(***************************************************************************)
MaxScoreParts == 2
PartAmounts == {None, 0, 100000}

\* the parts lists: none, and the lists of up to MaxScoreParts parts
ScoreParts ==
  {NoParts} \cup {[i \in 1..Len(f) |-> [totalAmount |-> f[i]]] :
                    f \in SeqsUpTo(PartAmounts, MaxScoreParts)}

\* the totals: none, and the totals with or without each amount
ScoreTotals ==
  {NoRecord} \cup
  [subtotal : {None, 0, 100000}, totalTax : {None, 10000}, shippingCost : {None},
   tip : {None}, serviceCharge : {None}, discount : {None, 5000},
   grandTotal : {None, 0, 100000, 110000, 120000, -50000}]

BaseScoreRecord ==
  [supplierName |-> Str("Acme"), invoiceNumber |-> Absent, invoiceDate |-> Absent,
   currency |-> Str("USD"), email |-> Absent, phone |-> Absent, buyerName |-> Absent,
   documentType |-> Str("invoice"), totals |-> NoRecord, parts |-> <<>>]

\* the records that differ in their parts and totals
NumericRecords ==
  {[BaseScoreRecord EXCEPT !.parts = p, !.totals = t] : p \in ScoreParts, t \in ScoreTotals}

\* the records that differ in their header fields and claimed type
FieldRecords ==
  {[BaseScoreRecord EXCEPT !.supplierName = n, !.invoiceNumber = i, !.email = e,
                           !.buyerName = b, !.documentType = d,
                           !.parts = <<[totalAmount |-> 100000]>>,
                           !.totals = [subtotal |-> 100000, totalTax |-> None,
                                       shippingCost |-> None, tip |-> None,
                                       serviceCharge |-> None, discount |-> None,
                                       grandTotal |-> 100000]] :
     n \in {Absent, <<>>, Str("Acme")}, i \in {Absent, Str("A1")},
     e \in {Absent, Str("a@b.c")}, b \in {Absent, Str("Bo")},
     d \in {Absent, Str("Invoice"), Str("tax_invoice"), Str("receipt")}}

\* a text of n words
Words(n) == Concat([i \in 1..n |-> Str("ab ")])

ScoreTexts ==
  {<<>>, Str("Invoice due date"), Str("thank you cash change"), Words(FullDensity + 10)}
OcrConfs == {0, 3333, E4}
ScoreTypes == {Str("invoice"), Str("receipt"), Str("generic")}

ScoreInputs ==
  [record : NumericRecords, text : {Str("Invoice due date")}, ocrConf : {E4},
   documentType : {Str("invoice")}]
  \cup [record : FieldRecords, text : ScoreTexts, ocrConf : OcrConfs,
        documentType : ScoreTypes]

InitScore ==
  /\ \E in \in ScoreInputs :
       /\ rawText = in.text
       /\ response = in.record
       /\ sdk = [ocrConf |-> in.ocrConf, documentType |-> in.documentType,
                 breakdown |-> NoRecord]
  /\ pc = "unscored"
  /\ normText = <<>>

\* ConfidenceEngine.score(response, rawText, ocrConf, documentType)
Score ==
  /\ pc = "unscored"
  /\ sdk' = [sdk EXCEPT !.breakdown = score(response, rawText, sdk.ocrConf, sdk.documentType)]
  /\ pc' = "scored"
  /\ UNCHANGED <<rawText, normText, response>>

SpecScore == InitScore /\ [][Score]_vars

SubScores == {"ocr", "fields", "numeric", "docType", "keyword"}

\* C13: for every record, text and OCR confidence in [0, 1], each of the five
\* sub-scores and the overall score returned by score() lies in [0, 1]
C13_ScoresInRange ==
  pc = "scored" =>
    \A f \in SubScores \cup {"overall"} :
      sdk.breakdown[f] >= 0 /\ sdk.breakdown[f] <= E4

\* C13: a text of more than fifty words read with full confidence was scored,
\* and the OCR sub-score is 1
C13_Witness ==
  /\ pc = "scored"
  /\ WordCount(rawText) > FullDensity
  /\ sdk.ocrConf = E4
  /\ sdk.breakdown.ocr = E4

\* C14: the numeric-consistency sub-score is 0.5 whenever totals.grandTotal is
\* 0, whatever the parts and the subtotal are, and it is 0.5 when the record
\* has neither parts nor totals
C14_NumericNeutral ==
  pc = "scored" =>
    /\ (response.totals # NoRecord /\ response.totals.grandTotal = 0) =>
         sdk.breakdown.numeric = E4 \div 2
    /\ (response.totals = NoRecord /\ response.parts \in {NoParts, <<>>}) =>
         sdk.breakdown.numeric = E4 \div 2

(***************************************************************************)
(* classifyDocumentType and detectCurrency on texts put together from      *)
(* lines with type keywords and currency markers                           *)
(***************************************************************************)
ClassifyBlocks ==
  << <<Str("Tax Invoice")>>, <<Str("Bill To: Bo")>>, <<Str("Receipt NZD 7")>>,
     <<Str("Purchase Order")>>, <<Str("Transactions C$5")>>, <<Str("Thanks")>>,
     <<Str("NZ$ 5.00")>>, <<Str("AUD 5.00")>> >>
MaxClassifyBlocks == 2

InitClassify ==
  /\ rawText \in DocsOf(ClassifyBlocks, MaxClassifyBlocks)
  /\ pc = "start" /\ normText = <<>> /\ response = "none"
  /\ sdk = [documentType |-> Undefined, currency |-> Undefined]

\* classifyDocumentType(rawText)
ClassifyDocumentType ==
  /\ sdk.documentType = Undefined
  /\ sdk' = [sdk EXCEPT !.documentType = classifyDocumentType(rawText)]
  /\ UNCHANGED <<rawText, pc, normText, response>>

\* detectCurrency(rawText)
DetectCurrency ==
  /\ sdk.currency = Undefined
  /\ sdk' = [sdk EXCEPT !.currency = detectCurrency(rawText)]
  /\ UNCHANGED <<rawText, pc, normText, response>>

NextClassify == ClassifyDocumentType \/ DetectCurrency

SpecClassify == InitClassify /\ [][NextClassify]_vars

\* the highest of the scores
TopScore(scores) == CHOOSE m \in 0..20 : (\E i \in 1..Len(scores) : scores[i] = m)
                                        /\ \A i \in 1..Len(scores) : scores[i] <= m

\* C15: classifyDocumentType returns the type with the highest keyword
\* score, of several types with the highest score the one that comes first
\* in the table of types, and generic if and only if every score is zero
C15_BestType ==
  sdk.documentType # Undefined =>
    LET scores == TypeScores(rawText)
        top == TopScore(scores)
    IN /\ sdk.documentType = "generic" <=> top = 0
       /\ top > 0 =>
            \E i \in 1..Len(TypeTable) :
              /\ TypeTable[i] = sdk.documentType
              /\ scores[i] = top
              /\ \A j \in 1..(i - 1) : scores[j] < top

\* C15: receipt and purchase_order both have the highest score, which is
\* not zero, and receipt, the earlier one in the table, is returned
C15_Witness ==
  /\ sdk.documentType = "receipt"
  /\ KeywordScore(rawText, "receipt") = 1
  /\ KeywordScore(rawText, "purchase_order") = 1
  /\ TopScore(TypeScores(rawText)) = 1

\* the prefixed dollar symbols with their codes, in lower case
PrefixedDollars ==
  <<[symbol |-> Str("a$"), code |-> Str("aud"), currency |-> "AUD"],
    [symbol |-> Str("nz$"), code |-> Str("nzd"), currency |-> "NZD"],
    [symbol |-> Str("c$"), code |-> Str("cad"), currency |-> "CAD"],
    [symbol |-> Str("s$"), code |-> Str("sgd"), currency |-> "SGD"]>>

\* the text with every occurrence of w blanked
Blanked(lower, w) == ReplaceAll(Lit(w), lower, <<" ">>)

\* the symbol or the code of p is in the text, and no currency marker is
\* left once they are blanked
OnlyMarker(lower, p) ==
  /\ Includes(lower, p.symbol) \/ Includes(lower, p.code)
  /\ CurrencyHits(Blanked(Blanked(lower, p.symbol), p.code)) = {}

\* C16: a text whose only currency marker is a prefixed dollar symbol or its
\* code (A$/AUD, NZ$/NZD, C$/CAD, S$/SGD) is detected as that currency,
\* never as USD
C16_PrefixedDollar ==
  sdk.currency # Undefined =>
    \A k \in 1..Len(PrefixedDollars) :
      OnlyMarker(LowerText(rawText), PrefixedDollars[k]) =>
        sdk.currency = PrefixedDollars[k].currency

(***************************************************************************)
(* parse() on texts with and without currency markers                      *)
(***************************************************************************)
CurrencyBlocks ==
  << <<Str("Total 5.00")>>, <<Str("Total $5.00")>>, <<Str("NZ$ 10.00")>>,
     <<Str("Total <eur>5.00")>>, <<Str("AUD 7.00")>>, <<Str("Widget  2  1.00  2.00")>>,
     <<Str("USD 3.00")>> >>
MaxCurrencyBlocks == 2

InitCurrency ==
  /\ rawText \in DocsOf(CurrencyBlocks, MaxCurrencyBlocks)
  /\ pc = "start" /\ normText = <<>> /\ response = "none" /\ sdk = SdkIdle

SpecCurrency == InitCurrency /\ [][Parse]_vars

\* C17: the currency of the record parse() returns is USD if and only if the
\* text holds no currency symbol and no currency code
C17_UsdDefault ==
  pc = "parsed" =>
    (response.currency = "USD" <=> CurrencyHits(LowerText(rawText)) = {})

(***************************************************************************)
(* extractPhones on texts put together from pieces of phone numbers, ZIP   *)
(* codes and line breaks                                                   *)
(***************************************************************************)
PhoneFrags ==
  <<Str("(312) 555-0100"), Str("29651-1500"), Str("+61 3 9000 1234"), <<NL>>, Str(" "),
    Str("+1 2 34"), Str("864 555"), Str("-0100")>>
MaxPhoneFrags == 3

PhoneTexts ==
  {Concat([i \in 1..Len(f) |-> PhoneFrags[f[i]]]) :
     f \in SeqsUpTo(1..Len(PhoneFrags), MaxPhoneFrags)}

InitPhones ==
  /\ rawText \in PhoneTexts
  /\ pc = "start" /\ normText = <<>> /\ response = "none"
  /\ sdk = [phones |-> <<>>]

\* extractPhones(rawText)
ExtractPhones ==
  /\ pc = "start"
  /\ sdk' = [sdk EXCEPT !.phones = extractPhones(rawText)]
  /\ pc' = "extracted"
  /\ UNCHANGED <<rawText, normText, response>>

SpecPhones == InitPhones /\ [][ExtractPhones]_vars

\* five digits, a hyphen, four digits
ZipPlus4Shape(p) ==
  /\ Len(p) = 10
  /\ p[6] = "-"
  /\ \A i \in (1..10) \ {6} : p[i] \in Digit

\* C20: every phone extractPhones returns holds no line break, has at least 7
\* digits, and is not of the ZIP+4 shape
C20_PhoneShape ==
  pc = "extracted" =>
    \A k \in 1..Len(sdk.phones) :
      /\ \A i \in 1..Len(sdk.phones[k]) : sdk.phones[k][i] # NL
      /\ DigitCount(sdk.phones[k]) >= 7
      /\ ~ZipPlus4Shape(sdk.phones[k])

\* C20: of a text with a ZIP+4 code on one line and a phone number on the
\* next, the phone number alone is returned
C20_Witness ==
  /\ pc = "extracted"
  /\ rawText = Str("29651-1500") \o <<NL>> \o Str("(312) 555-0100")
  /\ sdk.phones = <<Str("(312) 555-0100")>>

(***************************************************************************)
(* parse() called again and again; PATTERNS.PHONE is one pattern object    *)
(* with the g flag for all calls, and the clock goes on between calls      *)
(***************************************************************************)
MaxPhoneLike == 15
MinFormatted == 10
RunLimit == 8

\* isPhoneLike of buildSupplier
isPhoneLike(p) ==
  /\ DigitCount(p) >= MinPhoneDigits
  /\ DigitCount(p) <= MaxPhoneLike
  /\ ~Test(Rep(Ch(Digit), RunLimit, Unbounded), p)

\* contact.phone: formattedPhone ?? fallbackPhone
SupplierPhone(phones) ==
  LET formatted == {k \in 1..Len(phones) :
                      /\ \E i \in 1..Len(phones[k]) : phones[k][i] \in {"(", ")", "-", ".", " "}
                      /\ DigitCount(phones[k]) >= MinFormatted
                      /\ isPhoneLike(phones[k])}
      fallback == {k \in 1..Len(phones) : isPhoneLike(phones[k])}
  IN IF formatted # {} THEN phones[FirstOr(formatted, 0)]
     ELSE IF fallback # {} THEN phones[FirstOr(fallback, 0)]
     ELSE Absent

\* headerLines.join("\n") of parse()
HeaderTextOf(norm) == Join(segmentDocument(TrimmedLines(norm)).headerLines, <<NL>>)

\* parse(rawText, options) as far as the record goes, with the phone of the
\* supplier found by the global match g and the time stamp now
ParsedWith(parsed, options, g, now) ==
  [documentType |-> IF options.documentType # Undefined THEN options.documentType
                    ELSE parsed.documentType,
   currency |-> parsed.currency,
   purchaseOrderNumber |-> parsed.purchaseOrderNumber,
   parts |-> parsed.parts,
   totals |-> parsed.totals,
   supplierPhone |-> SupplierPhone(PhonesOf(g.found)),
   extractionTimestamp |-> now]

RepeatTexts ==
  {Str("Acme (312) 555-0100\nTotal 5.00"), Str("PO#: A1\nFax 864 555 0100 x"),
   Str("Receipt\nWidget  2  1.00  2.00")}

\* the calls of the model: a text with or without a documentType hint
RepeatCalls ==
  {c \in [text : RepeatTexts, documentType : {Undefined, "quote"}] :
     c.documentType = "quote" => c.text # Str("PO#: A1\nFax 864 555 0100 x")}
MaxCalls == 3

InitRepeat ==
  /\ rawText = <<>> /\ normText = <<>> /\ response = "none"
  /\ pc = "ready"
  /\ sdk = [lastIndex |-> 0, now |-> 0, calls |-> <<>>]

\* one more parse(text, options)
ParseCall ==
  /\ pc = "ready"
  /\ Len(sdk.calls) < MaxCalls
  /\ \E call \in RepeatCalls :
       \E norm \in {normaliseOCRText(call.text)} :
         \E g \in {matchGlobal(PHONE, HeaderTextOf(norm), sdk.lastIndex)} :
           \E record \in {ParsedWith(parse(call.text), call, g, sdk.now)} :
             /\ rawText' = call.text
             /\ normText' = norm
             /\ response' = record
             /\ sdk' = [lastIndex |-> g.lastIndex,
                        now |-> sdk.now + 1,
                        calls |-> Append(sdk.calls, [call |-> call, record |-> record])]
  /\ pc' = pc

SpecRepeat == InitRepeat /\ [][ParseCall]_vars

\* a record less its time stamp
Timeless(record) == [record EXCEPT !.extractionTimestamp = 0]

\* C19: two parse() calls with the same text and the same documentType hint
\* return records equal in every field but the time stamp, whatever calls
\* were made before and between them
C19_Deterministic ==
  \A i, j \in 1..Len(sdk.calls) :
    sdk.calls[i].call = sdk.calls[j].call =>
      Timeless(sdk.calls[i].record) = Timeless(sdk.calls[j].record)

\* C19: a text with a phone number was parsed, then another text, then the
\* first one again with the same hint, and the phone number was found both times
C19_Witness ==
  /\ Len(sdk.calls) = 3
  /\ sdk.calls[1].call = sdk.calls[3].call
  /\ sdk.calls[2].call # sdk.calls[1].call
  /\ sdk.calls[1].record.supplierPhone = Str("(312) 555-0100")
  /\ sdk.calls[3].record.extractionTimestamp # sdk.calls[1].record.extractionTimestamp

(***************************************************************************)
(* parseLineItem() on rows of numeric columns                              *)
(***************************************************************************)
\* the columns a row is written from: the text of a column, the number it
\* stands for, and whether it carries a % suffix
ColumnTokens ==
  << [text |-> Str("200"), value |-> 200 * E4, isPct |-> FALSE],
     [text |-> Str("0.85"), value |-> 8500, isPct |-> FALSE],
     [text |-> Str("10"), value |-> 10 * E4, isPct |-> FALSE],
     [text |-> Str("10%"), value |-> 10 * E4, isPct |-> TRUE],
     [text |-> Str("17.00"), value |-> 17 * E4, isPct |-> FALSE],
     [text |-> Str("187.00"), value |-> 187 * E4, isPct |-> FALSE],
     [text |-> Str("1234.50"), value |-> 12345000, isPct |-> FALSE] >>
MaxColumns == 3

LineNames == {Str("Widget"), Str("Hex Bolt M12 x 75mm")}

\* quantity, unit price, tax percentage, tax amount, tax-inclusive total
TaxInclusiveColumns == <<1, 2, 3, 5, 6>>

ColumnLists == SeqsUpTo(1..Len(ColumnTokens), MaxColumns) \cup {TaxInclusiveColumns}

\* the row: the name, then the columns, each after the separator
RowText(name, columns, sep) ==
  name \o Concat([i \in 1..Len(columns) |-> sep \o ColumnTokens[columns[i]].text])

InitLine ==
  /\ \E name \in LineNames, columns \in ColumnLists, sep \in {Str(" "), Str("  ")} :
       /\ sep = Str(" ") => columns = TaxInclusiveColumns
       /\ rawText = RowText(name, columns, sep)
       /\ sdk = [name |-> name, columns |-> columns]
  /\ pc = "start" /\ normText = <<>> /\ response = "none"

\* parseLineItem(rawText, 1)
ParseLineItem ==
  /\ pc = "start"
  /\ response' = parseLineItem(rawText, None)
  /\ pc' = "parsed"
  /\ UNCHANGED <<rawText, normText, sdk>>

SpecLine == InitLine /\ [][ParseLineItem]_vars

About(x, y) == x # None /\ Abs(x - y) <= 50

\* C22: a row whose numeric columns are quantity, unit price, tax
\* percentage, tax amount and a tax-inclusive total (200, 0.85, 10, 17.00,
\* 187.00) is parsed to a part with quantity 200, unit price about 0.85, tax
\* percentage 10, tax amount about 17.00 and total amount about 187.00
C22_TaxInclusiveRow ==
  (pc = "parsed" /\ sdk.columns = TaxInclusiveColumns) =>
    /\ Len(response) = 1
    /\ response[1].quantity = 200 * E4
    /\ About(response[1].unitPrice, 8500)
    /\ response[1].taxPercentage = 10 * E4
    /\ About(response[1].taxAmount, 17 * E4)
    /\ About(response[1].totalAmount, 187 * E4)

\* the columns of the row that carry no % suffix
PlainColumns(columns) == SelectSeq(columns, LAMBDA c : ~ColumnTokens[c].isPct)

\* the number the rightmost column without a % suffix stands for
RightmostPlain(columns) ==
  ColumnTokens[PlainColumns(columns)[Len(PlainColumns(columns))]].value

\* C27: whenever parseLineItem returns a part for a row with a column that
\* carries no % suffix, the part's total amount is the value of the
\* rightmost such column and lies in (0, 9,999,999]; a row whose rightmost
\* such column is outside that range yields no part
C27_RightmostTotal ==
  (pc = "parsed" /\ Len(PlainColumns(sdk.columns)) > 0) =>
    /\ Len(response) = 1 =>
         /\ response[1].totalAmount = RightmostPlain(sdk.columns)
         /\ response[1].totalAmount > 0 /\ ~TooLarge(response[1].totalAmount)
    /\ (RightmostPlain(sdk.columns) <= 0 \/ TooLarge(RightmostPlain(sdk.columns)))
         => response = <<>>

(***************************************************************************)
(* RuleBasedParser.extractSupplierName and the supplier of parse()         *)
(***************************************************************************)
CORP_SUFFIX_RX ==
  Cat(<<WB,
        Alt(<<Cat(<<L("pty"), OptDot, S0, L("ltd")>>), Cat(<<L("inc"), OptDot>>),
              Cat(<<L("llc"), OptDot>>), Cat(<<L("ltd"), OptDot>>),
              Cat(<<L("co"), OptDot>>), Cat(<<L("corp"), OptDot>>), L("company"),
              L("group"), L("services"), L("solutions"),
              Cat(<<L("enterprise"), Opt(Ch({"s"}))>>),
              Cat(<<L("holding"), Opt(Ch({"s"}))>>), L("industries"), L("gmbh"),
              L("bv"), L("sa")>>),
        WB>>)

SKIP_HEADER_WORDS ==
  Cat(<<Bol,
        Alt(<<L("invoice"), Cat(<<L("tax"), S1, L("invoice")>>), L("receipt"),
              L("bill"), L("quote"), L("statement"), L("date"),
              Cat(<<L("no"), OptDot>>), L("number"), L("page"),
              Cat(<<L("purchase"), S1, L("order")>>), L("delivery"), L("packing"),
              L("from"), L("to")>>),
        WB>>)

\* ^[A-Z][A-Z\s&.,'-]{4,}$
RxAllCaps ==
  Cat(<<Bol, Ch(UpperCh),
        Rep(Ch(UpperCh \cup Space \cup {"&", ".", ",", "'", "-"}), 4, Unbounded), Eol>>)

NameCandidates == 8
MinNameLen == 3
MaxNameLen == 60

Skipped(line) == Test(SKIP_HEADER_WORDS, LowerText(line))

\* the shortest line of the set ks, the first among equals
ShortestOf(candidates, ks) ==
  candidates[CHOOSE k \in ks :
               \A j \in ks : Len(candidates[k]) < Len(candidates[j])
                             \/ (Len(candidates[k]) = Len(candidates[j]) /\ k <= j)]

SupplierNameOf(candidates) ==
  LET idx == 1..Len(candidates)
      caps == {k \in idx : /\ Len(candidates[k]) >= MinNameLen
                           /\ Len(candidates[k]) <= MaxNameLen
                           /\ ~Skipped(candidates[k])
                           /\ Test(RxAllCaps, candidates[k])}
      corp == {k \in idx : /\ Len(candidates[k]) >= MinNameLen
                           /\ ~Skipped(candidates[k])
                           /\ Test(CORP_SUFFIX_RX, LowerText(candidates[k]))}
      plain == {k \in idx : /\ Len(candidates[k]) > MinNameLen
                            /\ Len(candidates[k]) <= MaxNameLen
                            /\ ~Skipped(candidates[k])}
  IN IF caps # {} THEN candidates[FirstOr(caps, 0)]
     ELSE IF corp # {} THEN ShortestOf(candidates, corp)
     ELSE IF plain # {} THEN candidates[FirstOr(plain, 0)]
     ELSE Absent

\* Absent for undefined
extractSupplierName(headerLines) ==
  IF Len(headerLines) = 0 THEN Absent
  ELSE SupplierNameOf(SubSeq(headerLines, 1, Min(NameCandidates, Len(headerLines))))

\* nameHint ?? ""
NameOrEmpty(nameHint) == IF nameHint = Absent THEN <<>> ELSE nameHint

\* the supplier buildSupplier returns, as far as its name goes
buildSupplier(nameHint) == [name |-> NameOrEmpty(nameHint)]

(***************************************************************************)
(* parse() with the supplier of the record                                 *)
(***************************************************************************)
SupplierBlocks ==
  << <<Str("ACME SUPPLY")>>,
     <<Str("Acme Tools Pty Ltd")>>,
     <<Str("Invoice")>>,
     <<Str("Hi")>>,
     <<Str("Joe's Diner")>>,
     <<Str("PO#: A1")>>,
     <<Str("Subtotal 0.00")>>,
     <<Str("Description  Qty  Price  Total"), Str("Widget A  2  5.00  10.00")>> >>
MaxSupplierBlocks == 2

InitSupplier ==
  /\ rawText \in DocsOf(SupplierBlocks, MaxSupplierBlocks)
  /\ pc = "start" /\ normText = <<>> /\ response = "none" /\ sdk = SdkIdle

\* RuleBasedParser.parse(rawText), the supplier included
ParseSupplier ==
  /\ pc = "start"
  /\ \E norm \in {normaliseOCRText(rawText)} :
       \E seg \in {segmentDocument(TrimmedLines(norm))} :
         /\ normText' = norm
         /\ response' = ParsedText(norm)
                          @@ [supplier |-> buildSupplier(extractSupplierName(seg.headerLines))]
  /\ pc' = "parsed"
  /\ UNCHANGED <<rawText, sdk>>

SpecSupplier == InitSupplier /\ [][ParseSupplier]_vars

TotalsFields ==
  {"subtotal", "totalTax", "shippingCost", "discount", "amountPaid", "balanceDue"}

\* the label of the totals field does not stand in the text
NotInText(field, text) ==
  /\ field = "subtotal" => ~Includes(LowerText(text), Str("total"))
  /\ field = "totalTax" => ~Includes(LowerText(text), Str("tax"))
  /\ field = "shippingCost" => ~Includes(LowerText(text), Str("ship"))
  /\ field = "discount" => ~Includes(LowerText(text), Str("discount"))
  /\ field = "amountPaid" => ~Includes(LowerText(text), Str("paid"))
  /\ field = "balanceDue" => ~Includes(LowerText(text), Str("balance"))

\* C23: in every record parse() returns, a field whose value was not found
\* in the text is absent, never the empty string and never zero: the supplier
\* name and the purchase-order number are never the empty string, and a
\* totals field other than the grand total whose label is not in the text
\* is undefined
C23_AbsentNotDefaulted ==
  pc = "parsed" =>
    /\ response.supplier.name # <<>>
    /\ response.purchaseOrderNumber # <<>>
    /\ \A field \in TotalsFields :
         (NotInText(field, normText) /\ response.parts = <<>>)
           => response.totals[field] = None

(***************************************************************************)
(* segmentDocument() on line arrays                                        *)
(***************************************************************************)
SegmentLines == {Str("Hello"), Str("Description"), Str("Price  Tax"), Str("Total 5.00")}
MaxSegmentLines == 4

\* the numbers of filler lines put before the drawn lines: none, up to the
\* default header length, up to the end of the scanned lines
Fillers == {0, HeaderDefault - 1, ScanLimit - 1}

InitSegment ==
  /\ \E n \in Fillers, tail \in SeqsUpTo(SegmentLines, MaxSegmentLines) :
       sdk = [lines |-> [i \in 1..n |-> Str("Hello")] \o tail]
  /\ rawText = <<>> /\ pc = "start" /\ normText = <<>> /\ response = "none"

\* RuleBasedParser.segmentDocument(lines)
SegmentDocument ==
  /\ pc = "start"
  /\ response' = segmentDocument(sdk.lines)
  /\ pc' = "segmented"
  /\ UNCHANGED <<rawText, normText, sdk>>

SpecSegment == InitSegment /\ [][SegmentDocument]_vars

\* C25: for every line array the header, body and footer slices, put
\* together in that order, are the input lines, so header_end <=
\* footer_start and no line is in both the header and the footer
C25_Partition ==
  pc = "segmented" =>
    response.headerLines \o response.bodyLines \o response.footerLines = sdk.lines

\* line i (from 0) starts with a body-start keyword or holds two table-header keywords
StartsBody(lines, i) ==
  \/ Test(bodyStartKeywords, LowerText(lines[i + 1]))
  \/ Hits(lines[i + 1], tableHeaderKws) >= 2

\* C26: header_end is the index of the first line among the first 25 that
\* matches a body-start keyword or contains at least 2 table-header
\* keywords, whichever kind comes first; without such a line it is 8, or the
\* line count when there are fewer than 8 lines
C26_HeaderEnd ==
  pc = "segmented" =>
    Len(response.headerLines) =
      FirstOr({i \in 0..(Min(ScanLimit, Len(sdk.lines)) - 1) : StartsBody(sdk.lines, i)},
              Min(HeaderDefault, Len(sdk.lines)))

(***************************************************************************)
(* extractLabeledAmount() on texts of labelled lines                       *)
(***************************************************************************)
\* the lines a text is written from: the text of the line, the label it
\* carries ("none" without one) and the amount that stands on it
AmountLines ==
  << [text |-> Str("Shipping"), label |-> "shipping", amount |-> None],
     [text |-> Str("Shipping (est) 4.00"), label |-> "shipping", amount |-> 4 * E4],
     [text |-> Str("Tax 5.00"), label |-> "tax", amount |-> 5 * E4],
     [text |-> Str("6.00"), label |-> "none", amount |-> 6 * E4],
     [text |-> Str("Hello"), label |-> "none", amount |-> None] >>
MaxAmountLines == 3

LabelPattern(label) == IF label = "shipping" THEN lblShipping ELSE lblTax

InitAmount ==
  /\ \E kinds \in SeqsUpTo(1..Len(AmountLines), MaxAmountLines), label \in {"shipping", "tax"} :
       /\ sdk = [kinds |-> kinds, label |-> label]
       /\ rawText = Join([i \in 1..Len(kinds) |-> AmountLines[kinds[i]].text], <<NL>>)
  /\ pc = "start" /\ normText = <<>> /\ response = "none"

\* extractLabeledAmount(rawText, labelPattern)
ExtractLabeledAmount ==
  /\ pc = "start"
  /\ response' = [amount |-> extractLabeledAmount(rawText, LabelPattern(sdk.label))]
  /\ pc' = "extracted"
  /\ UNCHANGED <<rawText, normText, sdk>>

SpecAmount == InitAmount /\ [][ExtractLabeledAmount]_vars

MaxAhead == 4

\* the amount n stands with the label on line i: on the line itself, or,
\* the label being alone on its line, alone on one of the next 4 lines with
\* no labelled line in between
StandsWith(kinds, label, i, n) ==
  /\ AmountLines[kinds[i]].label = label
  /\ \/ AmountLines[kinds[i]].amount = n
     \/ /\ AmountLines[kinds[i]].amount = None
        /\ \E j \in (i + 1)..Min(i + MaxAhead, Len(kinds)) :
             /\ AmountLines[kinds[j]].label = "none"
             /\ AmountLines[kinds[j]].amount = n
             /\ \A k \in (i + 1)..(j - 1) : AmountLines[kinds[k]].label = "none"

\* C28: extractLabeledAmount returns no value or a non-negative amount that
\* stands with the matched label: on the label's line, or, the label being
\* alone on its line, alone on one of the next 4 lines with no totals line
\* in between; never an amount from the line of a different label
C28_AmountOfLabel ==
  (pc = "extracted" /\ response.amount # None) =>
    /\ response.amount >= 0
    /\ \E i \in 1..Len(sdk.kinds) : StandsWith(sdk.kinds, sdk.label, i, response.amount)

(***************************************************************************)
(* primitives.normaliseDateString and primitives.extractDates              *)
(***************************************************************************)
\* ^\d{4}-\d{2}-\d{2}$
RxIsoDate ==
  Cat(<<Bol, Rep(Ch(Digit), 4, 4), Ch({"-"}), Rep(Ch(Digit), 2, 2), Ch({"-"}),
        Rep(Ch(Digit), 2, 2), Eol>>)

\* ^(\d{1,2})[-/.](\d{1,2})[-/.](\d{4})$
RxDmy ==
  Cat(<<Bol, Grp(1, Rep(Ch(Digit), 1, 2)), Ch({"-", "/", "."}),
        Grp(2, Rep(Ch(Digit), 1, 2)), Ch({"-", "/", "."}),
        Grp(3, Rep(Ch(Digit), 4, 4)), Eol>>)

\* s.padStart(2, "0")
PadStart2(s) == IF Len(s) < 2 THEN <<"0">> \o s ELSE s

DmyToIso(dmy, raw) ==
  Cap(dmy, raw, 3) \o <<"-">> \o PadStart2(Cap(dmy, raw, 2)) \o <<"-">>
    \o PadStart2(Cap(dmy, raw, 1))

normaliseDateString(raw) ==
  IF Test(RxIsoDate, raw) THEN raw
  ELSE IF Search(RxDmy, raw).ok THEN DmyToIso(Search(RxDmy, raw), raw)
  ELSE raw

DateSep == Ch({"-", "/", ".", " "})
\* \s*[:\-]?\s*(\d{1,4}[-/. ]\d{1,2}[-/. ]\d{2,4})
RxDateValue ==
  Cat(<<S0, Opt(Ch({":", "-"})), S0,
        Grp(1, Cat(<<Rep(Ch(Digit), 1, 4), DateSep, Rep(Ch(Digit), 1, 2), DateSep,
                     Rep(Ch(Digit), 2, 4)>>))>>)

invDateRx ==
  Cat(<<Alt(<<Cat(<<L("invoice"), S0, L("date")>>),
              Cat(<<L("date"), S0, L("of"), S0, L("invoice")>>),
              Cat(<<L("date"), S0, L("issued")>>), L("issued"), L("date")>>),
        RxDateValue>>)

dueDateRx ==
  Cat(<<Alt(<<Cat(<<L("due"), S0, L("date")>>), Cat(<<L("payment"), S0, L("due")>>),
              Cat(<<L("pay"), S0, L("by")>>),
              Cat(<<L("payable"), S0, Alt(<<L("by"), L("on")>>)>>),
              Cat(<<L("due"), S0, L("on")>>)>>),
        RxDateValue>>)

txDateRx ==
  Cat(<<Alt(<<L("transaction"), L("sale"), L("purchase"), L("order")>>), S0, L("date"),
        RxDateValue>>)

DATE_ISO ==
  Cat(<<WB, Grp(1, Cat(<<Rep(Ch(Digit), 4, 4), Ch({"-", "/"}), Rep(Ch(Digit), 2, 2),
                         Ch({"-", "/"}), Rep(Ch(Digit), 2, 2)>>)), WB>>)

\* td(text.match(rx)): Absent for undefined
DateOf(m, text) ==
  IF m.ok /\ HasCap(m, 1) /\ Len(Cap(m, text, 1)) > 0
  THEN normaliseDateString(Cap(m, text, 1)) ELSE Absent

IsoFallback(invoiceDate, isoMatch, text) ==
  IF invoiceDate = Absent /\ isoMatch.ok
  THEN normaliseDateString(Cap(isoMatch, text, 1)) ELSE invoiceDate

extractDates(text) ==
  [invoiceDate |-> IsoFallback(DateOf(Search(invDateRx, LowerText(text)), text),
                               Search(DATE_ISO, text), text),
   dueDate |-> DateOf(Search(dueDateRx, LowerText(text)), text),
   transactionDate |-> DateOf(Search(txDateRx, LowerText(text)), text)]

(***************************************************************************)
(* extractDates() on texts of labelled dates                               *)
(***************************************************************************)
DateLabels == <<Str("Invoice Date: "), Str("Due Date: "), Str("Order Date "), Str("Ref ")>>

\* the dates a text is written from: the text, and the date it stands for,
\* read day-first with a two-digit year in 20yy
DateInputs ==
  << [text |-> Str("15/03/2024"), iso |-> Str("2024-03-15")],
     [text |-> Str("5-3-2024"), iso |-> Str("2024-03-05")],
     [text |-> Str("2024-03-15"), iso |-> Str("2024-03-15")],
     [text |-> Str("15/03/24"), iso |-> Str("2024-03-15")],
     [text |-> Str("01.02.2023"), iso |-> Str("2023-02-01")] >>
MaxDateLines == 2

DateLine(l) == DateLabels[l[1]] \o DateInputs[l[2]].text

InitDates ==
  /\ \E ls \in SeqsUpTo((1..Len(DateLabels)) \X (1..Len(DateInputs)), MaxDateLines) :
       /\ sdk = [lines |-> ls]
       /\ rawText = Join([i \in 1..Len(ls) |-> DateLine(ls[i])], <<NL>>)
  /\ pc = "start" /\ normText = <<>> /\ response = "none"

\* extractDates(rawText)
ExtractDates ==
  /\ pc = "start"
  /\ response' = extractDates(rawText)
  /\ pc' = "extracted"
  /\ UNCHANGED <<rawText, normText, sdk>>

SpecDates == InitDates /\ [][ExtractDates]_vars

\* the date is one of the dates of the text, in the form YYYY-MM-DD
IsoOfText(date) ==
  \E i \in 1..Len(sdk.lines) : date = DateInputs[sdk.lines[i][2]].iso

\* C29: every invoice date, due date and transaction date extractDates
\* captures from a numeric date is given in the form YYYY-MM-DD, read
\* day-first, a two-digit year expanded to 20yy
C29_IsoDates ==
  pc = "extracted" =>
    /\ response.invoiceDate # Absent => IsoOfText(response.invoiceDate)
    /\ response.dueDate # Absent => IsoOfText(response.dueDate)
    /\ response.transactionDate # Absent => IsoOfText(response.transactionDate)

=============================================================================
